---- MODULE Spec2Model ----
(***************************************************************************)
(* Model of perjmi/spawithdata: the trade simulator                        *)
(* (src/trade-simulator.js) and the bar aggregation, the classifiers and   *)
(* the data processor of src/chart-renderer.js.                            *)
(*                                                                         *)
(* Representation.                                                         *)
(*  - A bar is the JS array [timestamp, open, high, low, close]; JS index   *)
(*    k is TLA+ index k+1, so bar[3] is the high, bar[4] the low, bar[5]    *)
(*    the close.                                                           *)
(*  - Bar prices are integers. What the simulator computes from them     *)
(*    (entry, target, stop, pnl, winRate, avgPnL) are doubles, with the    *)
(*    rounding of each JS operation (see "JS numbers").                    *)
(*  - params.triggerBar is a JS number that may be fractional: it is the   *)
(*    record [whole, half] standing for whole + (half ? 0.5 : 0).          *)
(*  - A JS object is a record with exactly the properties the code sets;   *)
(*    null is the record NULL, a thrown TypeError the record TypeError.     *)
(*  - A catalog entry, a day and a view carry the properties the data      *)
(*    processor reads or computes; timezone, tradingHours, prevClose,      *)
(*    prevHigh, prevLow and the entry's bodyRatios are copied through      *)
(*    unread and are left out.                                             *)
(*  - The key of a view is the string `source-date-freq-barsOpt`.          *)
(***************************************************************************)
EXTENDS Integers, Sequences, FiniteSets, TLC

(***************************************************************************)
(* Bounds of the model                                                     *)
(***************************************************************************)
MaxLen == 3
MaxTrigger == 3
MaxViews == 3
MaxAggLen == 6

\* simulator: the arguments of a call of simulate, its result, its position
\* aggregator: the heap of JS arrays (barObjs: the bar arrays by reference,
\* arrays: the arrays of bar references by reference), the arguments of a
\* call of aggregateToFrequency (bars5min is a reference), the reference it
\* returned, the bars the argument held when the call was made, its position
\* data processor: the content of data/ohlc_data.json (in the specification
\* of the processor alone: as last read, pending before), the module variables
\* rawData and processedCharts, the last call of the public API (its name
\* and arguments) that settled, what it returned, the position, and the
\* calls of loadData in flight
\* use of a loaded catalog: the filter and the views of the last
\* getFilteredCharts call on the present catalog, the number of calls made
\* page: the charts whose cards the gallery holds, the bars each container
\* `chart-i` of the gallery shows, Exporter.currentCharts, the format and the
\* (metadata, image) pairs of the last file written, the animation frame
\* callbacks requested and not yet run (each with the list it closes over),
\* the calls of an export that are waiting
VARIABLES charts, params, result, pc,
          arrays, barObjs, bars5min, targetFreq, returned, given, aggpc,
          dataFile, rawData, processedCharts, call, ret, catpc, loading,
          previous, ncalls,
          toDisplay, containers, currentCharts, exported, frames, exports

vars == <<charts, params, result, pc,
          arrays, barObjs, bars5min, targetFreq, returned, given, aggpc,
          dataFile, rawData, processedCharts, call, ret, catpc, loading,
          previous, ncalls,
          toDisplay, containers, currentCharts, exported, frames, exports>>
useVars == <<previous, ncalls>>
pageVars == <<toDisplay, containers, currentCharts, exported, frames, exports>>
catVars == <<dataFile, rawData, processedCharts, call, ret, catpc, loading>>
simVars == <<charts, params, result, pc>>
aggVars == <<arrays, barObjs, bars5min, targetFreq, returned, given, aggpc>>

(***************************************************************************)
(* Values                                                                  *)
(***************************************************************************)
Scale == 100

NULL == [null |-> TRUE]
TypeError == [raised |-> "TypeError"]

IsNull(r) == "null" \in DOMAIN r
IsRaised(r) == "raised" \in DOMAIN r
\* the object r has the property f and its value is x
Is(r, f, x) == f \in DOMAIN r /\ r[f] = x

Num(w, h) == [whole |-> w, half |-> h]
IsInteger(n) == ~n.half
\* n > 0 for the JS number n = whole + half/2
Positive(n) == n.whole > 0 \/ (n.whole = 0 /\ n.half)

Min2(a, b) == IF a <= b THEN a ELSE b
Abs(a) == IF a < 0 THEN -a ELSE a

RECURSIVE Gcd(_, _)
Gcd(a, b) == IF b = 0 THEN a ELSE Gcd(b, a % b)

(***************************************************************************)
(* JS numbers: IEEE 754 doubles                                            *)
(*                                                                         *)
(* The double x is the record [num, den, dev, dev2] with den > 0 that      *)
(* stands for                                                              *)
(*     x = num/den + dev / (den * 2^64) + dev2 / (den * 2^128),            *)
(* the fraction num/den being the result in exact arithmetic, dev what the *)
(* roundings of the operations added to it, and dev2 what the rounding of  *)
(* a result whose fraction has cancelled (num = 0) added to that. The      *)
(* record is reduced (no common divisor of its fields), so equal doubles   *)
(* are equal records. Each operation computes the exact result and rounds  *)
(* it to the nearest multiple of 2^(j-52), j the binary exponent of the    *)
(* result, ties to even. The rounding works on a level [num, den, dev],    *)
(* the value num/den + dev / (den * 2^64): the level times 2^64 is an      *)
(* integer, and its remainder modulo 2^(j+12) is computed modulo           *)
(* den * 2^(j+12), which keeps every intermediate value small. A result    *)
(* with num # 0 is rounded on the level [num, den, dev], a result with     *)
(* num = 0 on the level [dev, den, dev2], which is the result times 2^64.  *)
(***************************************************************************)
Dbl(n) == [num |-> n, den |-> 1, dev |-> 0, dev2 |-> 0]
Zero == Dbl(0)

Sign(n) == IF n > 0 THEN 1 ELSE IF n < 0 THEN -1 ELSE 0

fReduceBy(x, g) ==
    [num |-> x.num \div g, den |-> x.den \div g,
     dev |-> x.dev \div g, dev2 |-> x.dev2 \div g]
fReduce(x) ==
    fReduceBy(x, Gcd(Gcd(Gcd(Abs(x.num), x.den), Abs(x.dev)), Abs(x.dev2)))

fNeg(x) == [num |-> -x.num, den |-> x.den, dev |-> -x.dev, dev2 |-> -x.dev2]

\* 2^k modulo m for k below 90, as 2^(15 q + r) with products kept small:
\* a is 2^15 and b is 2^30 modulo m
Pow2ModBy(k, m, a, b) ==
    LET c == CASE k \div 15 = 0 -> 1 % m
               [] k \div 15 = 1 -> a
               [] k \div 15 = 2 -> b
               [] k \div 15 = 3 -> (b * a) % m
               [] k \div 15 = 4 -> (b * b) % m
               [] k \div 15 = 5 -> (((b * b) % m) * a) % m
    IN  (c * (2^(k % 15) % m)) % m
Pow2Mod(k, m) == Pow2ModBy(k, m, 2^15 % m, ((2^15 % m) * (2^15 % m)) % m)

\* the binary exponent j of num/den > 0: 2^j <= num/den < 2^(j+1)
RECURSIVE Binade(_, _)
Binade(num, den) ==
    IF num >= 2 * den THEN 1 + Binade(num, 2 * den)
    ELSE IF num < den THEN Binade(2 * num, den) - 1
    ELSE 0

\* num/den > 0 is a power of two
RECURSIVE IsPowerOfTwo(_, _)
IsPowerOfTwo(num, den) ==
    IF num >= 2 * den THEN IsPowerOfTwo(num, 2 * den)
    ELSE IF num < den THEN IsPowerOfTwo(2 * num, den)
    ELSE num = den

\* (v * 2^64) modulo 2^g, times v.den, for a grid of 2^g with g = 64 - k
fLow(v, g, k) ==
    (2^g * (((v.num % v.den) * Pow2Mod(k, v.den)) % v.den) + v.dev)
        % (v.den * 2^g)

\* the dev of the level v > 0 rounded to the nearest multiple of 2^(j - 52):
\* low is what v has above the multiple below it, in units of
\* 1 / (v.den * 2^64), grid is 2^(j - 52) in these units, and below is the
\* sign of what the value has beyond the level; a tie goes to the even
\* multiple
fRoundBy(v, below, j, low, grid) ==
    IF 2 * low < grid THEN v.dev - low
    ELSE IF 2 * low > grid THEN v.dev + grid - low
    ELSE IF below > 0 THEN v.dev + grid - low
    ELSE IF below < 0 THEN v.dev - low
    ELSE IF fLow(v, 13 + j, 51 - j) >= grid THEN v.dev + grid - low
    ELSE v.dev - low
fRoundIn(v, below, j) ==
    fRoundBy(v, below, j, fLow(v, 12 + j, 52 - j), v.den * 2^(12 + j))

\* the binade of the value is that of num/den, or the one below when num/den
\* is a power of two and the rest is negative
fRoundPositive(v, below) ==
    fRoundIn(v, below,
             IF /\ IsPowerOfTwo(v.num, v.den)
                /\ (v.dev < 0 \/ (v.dev = 0 /\ below < 0))
             THEN Binade(v.num, v.den) - 1
             ELSE Binade(v.num, v.den))

\* the dev of the level [num, den, dev], num # 0, rounded to a double
fRoundLevel(num, den, dev, below) ==
    IF num < 0
    THEN -fRoundPositive([num |-> -num, den |-> den, dev |-> -dev], -below)
    ELSE fRoundPositive([num |-> num, den |-> den, dev |-> dev], below)

\* the double nearest to the exact value x
fRound(x) ==
    IF x.num # 0
    THEN fReduce([x EXCEPT
                     !.dev = fRoundLevel(x.num, x.den, x.dev, Sign(x.dev2)),
                     !.dev2 = 0])
    ELSE IF x.dev # 0
    THEN fReduce([x EXCEPT !.dev2 = fRoundLevel(x.dev, x.den, x.dev2, 0)])
    ELSE fReduce(x)

\* x + y over the common denominator l, x - y
fAddOver(x, y, l) ==
    fRound([num |-> x.num * (l \div x.den) + y.num * (l \div y.den),
            den |-> l,
            dev |-> x.dev * (l \div x.den) + y.dev * (l \div y.den),
            dev2 |-> x.dev2 * (l \div x.den) + y.dev2 * (l \div y.den)])
fAdd(x, y) == fAddOver(x, y, (x.den * y.den) \div Gcd(x.den, y.den))
fSub(x, y) == fAdd(x, fNeg(y))

\* x * n and x / n for an integer n > 0
fMul(x, n) ==
    fRound([num |-> x.num * n, den |-> x.den,
            dev |-> x.dev * n, dev2 |-> x.dev2 * n])
fDiv(x, n) == fRound([x EXCEPT !.den = @ * n])

\* x <= y over the common denominator l, x >= y
fLeOver(x, y, l) ==
    \/ x.num * (l \div x.den) < y.num * (l \div y.den)
    \/ /\ x.num * (l \div x.den) = y.num * (l \div y.den)
       /\ x.dev * (l \div x.den) < y.dev * (l \div y.den)
    \/ /\ x.num * (l \div x.den) = y.num * (l \div y.den)
       /\ x.dev * (l \div x.den) = y.dev * (l \div y.den)
       /\ x.dev2 * (l \div x.den) <= y.dev2 * (l \div y.den)
fLe(x, y) == fLeOver(x, y, (x.den * y.den) \div Gcd(x.den, y.den))
fGe(x, y) == fLe(y, x)

(***************************************************************************)
(* TradeSimulator.isValid                                                  *)
(***************************************************************************)
isValid(p) ==
    /\ Positive(p.triggerBar)
    /\ (p.direction = "Long" \/ p.direction = "Short")
    /\ p.targetPct > 0
    /\ p.stopPct > 0

(***************************************************************************)
(* TradeSimulator.simulateOne                                              *)
(***************************************************************************)
hitTarget(bar, p, targetPrice) ==
    IF p.direction = "Long"
    THEN fGe(Dbl(bar[3]), targetPrice)
    ELSE fLe(Dbl(bar[4]), targetPrice)

hitStop(bar, p, stopPrice) ==
    IF p.direction = "Long"
    THEN fLe(Dbl(bar[4]), stopPrice)
    ELSE fGe(Dbl(bar[3]), stopPrice)

EndOfDay(lv) ==
    [outcome |-> "SKIP", pnl |-> Zero, reason |-> "end of day",
     entry |-> lv.entry, target |-> lv.targetPrice, stop |-> lv.stopPrice]
BothHit(lv) ==
    [outcome |-> "SKIP", pnl |-> Zero, reason |-> "both hit",
     entry |-> lv.entry, target |-> lv.targetPrice, stop |-> lv.stopPrice]
Win(lv) ==
    [outcome |-> "WIN", pnl |-> lv.targetOffset,
     entry |-> lv.entry, target |-> lv.targetPrice, stop |-> lv.stopPrice]
Loss(lv) ==
    [outcome |-> "LOSS", pnl |-> fNeg(lv.stopOffset),
     entry |-> lv.entry, target |-> lv.targetPrice, stop |-> lv.stopPrice]

\* mutant: the loop does not return at the first firing bar, so that a
\* later firing bar overwrites the result
RECURSIVE scanBarsLastWins(_, _, _, _)
scanBarsLastWins(bars, p, i, lv) ==
    IF i > Len(bars) THEN EndOfDay(lv)
    ELSE LET ht == hitTarget(bars[i], p, lv.targetPrice)
             hs == hitStop(bars[i], p, lv.stopPrice)
             rest == scanBarsLastWins(bars, p, i + 1, lv)
         IN  IF ~Is(rest, "reason", "end of day") THEN rest
             ELSE IF ht /\ hs THEN BothHit(lv)
             ELSE IF ht THEN Win(lv)
             ELSE IF hs THEN Loss(lv)
             ELSE rest

\* mutant: the target is tested before the both-hit case
RECURSIVE scanBarsTargetFirst(_, _, _, _)
scanBarsTargetFirst(bars, p, i, lv) ==
    IF i > Len(bars) THEN EndOfDay(lv)
    ELSE LET ht == hitTarget(bars[i], p, lv.targetPrice)
             hs == hitStop(bars[i], p, lv.stopPrice)
         IN  IF ht THEN Win(lv)
             ELSE IF ht /\ hs THEN BothHit(lv)
             ELSE IF hs THEN Loss(lv)
             ELSE scanBarsTargetFirst(bars, p, i + 1, lv)

\* mutant: the end-of-day result reports the entry only, as the zero-range
\* result does
RECURSIVE scanBarsNoLevels(_, _, _, _)
scanBarsNoLevels(bars, p, i, lv) ==
    IF i > Len(bars)
    THEN [outcome |-> "SKIP", pnl |-> Zero, reason |-> "end of day",
          entry |-> lv.entry]
    ELSE LET ht == hitTarget(bars[i], p, lv.targetPrice)
             hs == hitStop(bars[i], p, lv.stopPrice)
         IN  IF ht /\ hs THEN BothHit(lv)
             ELSE IF ht THEN Win(lv)
             ELSE IF hs THEN Loss(lv)
             ELSE scanBarsNoLevels(bars, p, i + 1, lv)

\* the loop of simulateOne from JS index i-1 (TLA+ index i) on
RECURSIVE scanBars(_, _, _, _)
scanBars(bars, p, i, lv) ==
    IF i > Len(bars) THEN EndOfDay(lv)
    ELSE LET ht == hitTarget(bars[i], p, lv.targetPrice)
             hs == hitStop(bars[i], p, lv.stopPrice)
         IN  IF ht /\ hs THEN BothHit(lv)
             ELSE IF ht THEN Win(lv)
             ELSE IF hs THEN Loss(lv)
             ELSE scanBars(bars, p, i + 1, lv)

\* mutant: a Short trade gets the levels of a Long trade
levelsLongOnly(triggerBar, p) ==
    LET entry == Dbl(triggerBar[5])
        range == triggerBar[3] - triggerBar[4]
        targetOffset == fMul(fDiv(Dbl(p.targetPct), Scale), range)
        stopOffset == fMul(fDiv(Dbl(p.stopPct), Scale), range)
    IN  [entry |-> entry,
         targetOffset |-> targetOffset,
         stopOffset |-> stopOffset,
         targetPrice |-> fAdd(entry, targetOffset),
         stopPrice |-> fSub(entry, stopOffset)]

\* entry, offsets and price levels of a trigger bar (range > 0)
levels(triggerBar, p) ==
    LET entry == Dbl(triggerBar[5])
        range == triggerBar[3] - triggerBar[4]
        targetOffset == fMul(fDiv(Dbl(p.targetPct), Scale), range)
        stopOffset == fMul(fDiv(Dbl(p.stopPct), Scale), range)
    IN  [entry |-> entry,
         targetOffset |-> targetOffset,
         stopOffset |-> stopOffset,
         targetPrice |-> IF p.direction = "Long"
                         THEN fAdd(entry, targetOffset)
                         ELSE fSub(entry, targetOffset),
         stopPrice |-> IF p.direction = "Long"
                       THEN fSub(entry, stopOffset)
                       ELSE fAdd(entry, stopOffset)]

\* mutant: only a negative range is rejected (range < 0 for range <= 0)
simulateOneZeroRange(chartData, p) ==
    LET bars == chartData.bars
        triggerIndex == Num(p.triggerBar.whole - 1, p.triggerBar.half)
    IN  IF triggerIndex.whole >= Len(bars)
        THEN [outcome |-> "SKIP", pnl |-> Zero, reason |-> "not enough bars"]
        ELSE IF ~IsInteger(triggerIndex) \/ triggerIndex.whole < 0
        THEN TypeError
        ELSE LET triggerBar == bars[triggerIndex.whole + 1]
                 range == triggerBar[3] - triggerBar[4]
             IN  IF range < 0
                 THEN [outcome |-> "SKIP", pnl |-> Zero, reason |-> "zero range",
                       entry |-> Dbl(triggerBar[5])]
                 ELSE scanBars(bars, p, triggerIndex.whole + 2,
                               levels(triggerBar, p))

simulateOne(chartData, p) ==
    LET bars == chartData.bars
        \* triggerIndex = triggerBar - 1, the number whole-1 (+ 0.5 if half)
        triggerIndex == Num(p.triggerBar.whole - 1, p.triggerBar.half)
    IN  IF triggerIndex.whole >= Len(bars)
        THEN [outcome |-> "SKIP", pnl |-> Zero, reason |-> "not enough bars"]
        ELSE IF ~IsInteger(triggerIndex) \/ triggerIndex.whole < 0
        \* bars[triggerIndex] is undefined and reading its [4] throws
        THEN TypeError
        ELSE LET triggerBar == bars[triggerIndex.whole + 1]
                 range == triggerBar[3] - triggerBar[4]
             IN  IF range <= 0
                 THEN [outcome |-> "SKIP", pnl |-> Zero, reason |-> "zero range",
                       entry |-> Dbl(triggerBar[5])]
                 ELSE scanBars(bars, p, triggerIndex.whole + 2,
                               levels(triggerBar, p))

(***************************************************************************)
(* TradeSimulator.simulate                                                 *)
(***************************************************************************)
\* mutant: every trade is tagged with the key of the first view
RECURSIVE simulateLoopFirstKey(_, _, _, _)
simulateLoopFirstKey(cs, p, i, acc) ==
    IF i > Len(cs) THEN acc
    ELSE LET r == simulateOne(cs[i], p)
         IN  IF IsRaised(r) THEN r
             ELSE LET trade == [f \in DOMAIN r \cup {"key"} |->
                                   IF f = "key" THEN cs[1].key ELSE r[f]]
                      acc1 == [acc EXCEPT !.trades = Append(@, trade)]
                      acc2 ==
                        IF r.outcome = "WIN"
                        THEN [acc1 EXCEPT !.wins = @ + 1,
                                          !.totalPnL = fAdd(@, r.pnl)]
                        ELSE IF r.outcome = "LOSS"
                        THEN [acc1 EXCEPT !.losses = @ + 1,
                                          !.totalPnL = fAdd(@, r.pnl)]
                        ELSE [acc1 EXCEPT !.skipped = @ + 1]
                  IN  simulateLoopFirstKey(cs, p, i + 1, acc2)

\* the for-of loop of simulate over charts[i..], acc the locals so far
RECURSIVE simulateLoop(_, _, _, _)
simulateLoop(cs, p, i, acc) ==
    IF i > Len(cs) THEN acc
    ELSE LET r == simulateOne(cs[i], p)
         IN  IF IsRaised(r) THEN r
             ELSE LET trade == [f \in DOMAIN r \cup {"key"} |->
                                   IF f = "key" THEN cs[i].key ELSE r[f]]
                      acc1 == [acc EXCEPT !.trades = Append(@, trade)]
                      acc2 ==
                        IF r.outcome = "WIN"
                        THEN [acc1 EXCEPT !.wins = @ + 1,
                                          !.totalPnL = fAdd(@, r.pnl)]
                        ELSE IF r.outcome = "LOSS"
                        THEN [acc1 EXCEPT !.losses = @ + 1,
                                          !.totalPnL = fAdd(@, r.pnl)]
                        ELSE [acc1 EXCEPT !.skipped = @ + 1]
                  IN  simulateLoop(cs, p, i + 1, acc2)

\* the summary simulate returns for the locals acc of its loop, the win
\* rate being taken over n trades
summaryOver(acc, decisive, n) ==
    [wins |-> acc.wins,
     losses |-> acc.losses,
     skipped |-> acc.skipped,
     decisive |-> decisive,
     winRate |-> IF decisive > 0
                 THEN fMul(fDiv(Dbl(acc.wins), n), 100)
                 ELSE Zero,
     avgPnL |-> IF decisive > 0
                THEN fDiv(acc.totalPnL, decisive)
                ELSE Zero,
     trades |-> acc.trades]

\* mutant: winRate is taken over all the trades, the skipped included
summaryRateOverAll(cs, acc) ==
    IF IsRaised(acc) THEN acc
    ELSE summaryOver(acc, acc.wins + acc.losses, Len(cs))

\* what simulate returns once its loop over cs has ended with acc
summary(cs, acc) ==
    IF IsRaised(acc) THEN acc
    ELSE summaryOver(acc, acc.wins + acc.losses, acc.wins + acc.losses)

simulate(cs, p) ==
    IF ~isValid(p) THEN NULL
    ELSE summary(cs, simulateLoop(cs, p, 1,
                        [trades |-> <<>>, wins |-> 0, losses |-> 0,
                         skipped |-> 0, totalPnL |-> Zero]))

(***************************************************************************)
(* Inputs of the simulator                                                 *)
(***************************************************************************)
Prices == {1, 2, 3}

\* well-formed bars (low <= close <= high) and one bar with high < low
InvertedBar == <<0, 2, 1, 2, 2>>
SimBars == {<<0, l, h, l, c>> : h \in Prices, l \in Prices, c \in Prices}
SimBarSet == {b \in SimBars : b[4] <= b[5] /\ b[5] <= b[3]} \cup {InvertedBar}

\* all sequences over S of length at most n
SeqsUpTo(S, n) == UNION {[1..k -> S] : k \in 0..n}

Pcts == {50, 100}
Directions == {"Long", "Short"}

\* one view of any bars, any well-formed params
OneViews == {[key |-> "A-20240102-5min-999", bars |-> b] :
                b \in SeqsUpTo(SimBarSet, MaxLen)}
OneParams == [triggerBar : {Num(w, FALSE) : w \in 1..MaxTrigger},
              direction : Directions, targetPct : Pcts, stopPct : Pcts]

\* lists of views of six days, well-formed and malformed params
BarT == <<0, 2, 3, 1, 2>>
BarU == <<0, 2, 3, 2, 3>>
BarD == <<0, 2, 2, 1, 1>>
BarZ == <<0, 2, 2, 2, 2>>
PoolViews == {[key |-> "A-20240102-5min-999", bars |-> <<>>],
              [key |-> "A-20240103-5min-999", bars |-> <<BarT, BarU>>],
              [key |-> "A-20240104-5min-999", bars |-> <<BarT, BarD>>],
              [key |-> "B-20240102-5min-999", bars |-> <<BarT, BarT>>],
              [key |-> "B-20240103-5min-999", bars |-> <<BarT, BarZ>>],
              [key |-> "B-20240104-5min-999", bars |-> <<BarZ, BarU>>]}
ListParams == [triggerBar : {Num(0, FALSE), Num(0, TRUE), Num(1, FALSE),
                             Num(1, TRUE), Num(2, FALSE)},
               direction : Directions \cup {"Flat"},
               targetPct : {0, 50}, stopPct : {-50, 50, 100}]

\* one view and percentages whose hundredth is not exact in binary: 28% of
\* a range of 25 and 14% of a range of 50 are 7.000000000000001, 10% of a
\* range of 3 is 0.30000000000000004
RoundTriggers == {<<0, 0, 25, 0, 0>>, <<0, 25, 25, 0, 25>>,
                  <<0, 0, 50, 0, 0>>, <<0, 1, 3, 0, 1>>}
RoundFollowers == {<<0, 1, 7, 1, 1>>, <<0, 18, 32, 18, 18>>,
                   <<0, 1, 2, 1, 1>>}
RoundViews == {[key |-> "A-20240102-5min-999", bars |-> <<t, f>>] :
                  t \in RoundTriggers, f \in RoundFollowers}
RoundParams == [triggerBar : {Num(1, FALSE)}, direction : Directions,
                targetPct : {10, 14, 28}, stopPct : {10, 14, 28}]

\* lists whose profits and losses cancel but for the roundings: 14% of a
\* range of 50 twice, 7.000000000000001 each, against 70% of a range of 20
CancelViews ==
    { [key |-> "W50", bars |-> << <<0, 0, 50, 0, 0>>, <<0, 0, 100, 0, 0>> >>],
      [key |-> "L20", bars |-> << <<0, 0, 20, 0, 100>>, <<0, 0, 100, 0, 0>> >>] }
CancelParams == [triggerBar : {Num(1, FALSE)}, direction : Directions,
                 targetPct : {14}, stopPct : {70}]

Pending == [pending |-> TRUE]

UseOff ==
    /\ previous = [null |-> TRUE]
    /\ ncalls = 0

PageOff ==
    /\ toDisplay = <<>>
    /\ containers = <<>>
    /\ currentCharts = <<>>
    /\ exported = [format |-> "none", pairs |-> <<>>]
    /\ frames = <<>>
    /\ exports = <<>>

AggOff ==
    /\ arrays = <<>>
    /\ barObjs = <<>>
    /\ bars5min = 0
    /\ targetFreq = "5min"
    /\ returned = 0
    /\ given = <<>>
    /\ aggpc = "off"

\* no loadData call in flight
Idle == [fetch |-> 0, json |-> <<>>, running |-> "none"]

CatOff ==
    /\ dataFile = NULL
    /\ rawData = NULL
    /\ processedCharts = <<>>
    /\ call = [op |-> "none"]
    /\ ret = Pending
    /\ catpc = "off"
    /\ loading = Idle

InitSim ==
    /\ \/ /\ charts \in {<<v>> : v \in OneViews}
          /\ params \in OneParams
       \/ /\ charts \in SeqsUpTo(PoolViews, MaxViews)
          /\ params \in ListParams
       \/ /\ charts \in {<<v>> : v \in RoundViews}
          /\ params \in RoundParams
       \/ /\ charts \in SeqsUpTo(CancelViews, MaxViews)
          /\ params \in CancelParams
    /\ result = Pending
    /\ pc = "ready"
    /\ AggOff
    /\ CatOff
    /\ UseOff
    /\ PageOff

\* a call of TradeSimulator.simulate(charts, params)
Simulate ==
    /\ pc = "ready"
    /\ result' = simulate(charts, params)
    /\ pc' = "done"
    /\ UNCHANGED <<charts, params>>
    /\ UNCHANGED aggVars
    /\ UNCHANGED catVars
    /\ UNCHANGED <<useVars, pageVars>>

NextSim == Simulate

SpecSim == InitSim /\ [][NextSim]_vars

(***************************************************************************)
(* ChartRenderer.aggregateToFrequency                                      *)
(***************************************************************************)
MaxOf(S) == CHOOSE x \in S : \A y \in S : y <= x
MinOf(S) == CHOOSE x \in S : \A y \in S : x <= y

\* the bars an array reference holds
Deref(a) == [j \in 1..Len(arrays[a]) |-> barObjs[arrays[a][j]]]

barsPerPeriod(freq) == (IF freq = "10min" THEN 10 ELSE 15) \div 5

\* mutant: the low of the chunk's first bar for the lowest low
aggregatedFirstLow(chunk) ==
    <<chunk[1][1],
      chunk[1][2],
      MaxOf({chunk[j][3] : j \in 1..Len(chunk)}),
      chunk[1][4],
      chunk[Len(chunk)][5]>>

\* one aggregated bar of a non-empty chunk
aggregated(chunk) ==
    <<chunk[1][1],
      chunk[1][2],
      MaxOf({chunk[j][3] : j \in 1..Len(chunk)}),
      MinOf({chunk[j][4] : j \in 1..Len(chunk)}),
      chunk[Len(chunk)][5]>>

\* bars5min.slice(i, i + n)
slice(bars, i, n) == SubSeq(bars, i + 1, Min2(i + n, Len(bars)))

\* mutant: only full chunks are aggregated (i + n <= length for i < length)
RECURSIVE aggregateFullChunks(_, _, _)
aggregateFullChunks(bars, n, i) ==
    IF i + n > Len(bars) THEN <<>>
    ELSE <<aggregated(slice(bars, i, n))>>
         \o aggregateFullChunks(bars, n, i + n)

\* the loop of aggregateToFrequency from JS index i on: one iteration for
\* each of i, i + n, i + 2n, ... below the length, in that order; an
\* iteration whose chunk is empty pushes nothing
aggregateFrom(bars, n, i) ==
    LET visited == {k \in i..(Len(bars) - 1) : (k - i) % n = 0}
        chunks == [c \in 1..Cardinality(visited) |->
                      slice(bars, i + (c - 1) * n, n)]
        kept == SelectSeq(chunks, LAMBDA chunk : Len(chunk) # 0)
    IN  [c \in 1..Len(kept) |-> aggregated(kept[c])]

Freqs == {"5min", "10min", "15min"}
AggBarSet == {<<1, 2, 3, 1, 2>>, <<2, 1, 2, 1, 1>>,
              <<3, 3, 4, 2, 4>>, <<4, 2, 2, 2, 2>>}

SimOff ==
    /\ charts = <<>>
    /\ params = [triggerBar |-> Num(1, FALSE), direction |-> "Long",
                 targetPct |-> 50, stopPct |-> 50]
    /\ result = Pending
    /\ pc = "off"

\* a caller holds an array of bars, each bar an array of its own
InitAgg ==
    /\ \E b \in SeqsUpTo(AggBarSet, MaxAggLen) :
          /\ barObjs = b
          /\ arrays = <<[j \in 1..Len(b) |-> j]>>
          /\ given = b
    /\ bars5min = 1
    /\ targetFreq \in Freqs
    /\ returned = 0
    /\ aggpc = "ready"
    /\ SimOff
    /\ CatOff
    /\ UseOff
    /\ PageOff

\* a call of ChartRenderer.aggregateToFrequency(bars5min, targetFreq)
AggregateToFrequency ==
    /\ aggpc = "ready"
    /\ IF targetFreq = "5min"
       THEN /\ returned' = bars5min
            /\ UNCHANGED <<arrays, barObjs>>
       ELSE LET res == aggregateFrom(Deref(bars5min),
                                     barsPerPeriod(targetFreq), 0)
                n == Len(barObjs)
            IN  /\ barObjs' = barObjs \o res
                /\ arrays' = Append(arrays, [j \in 1..Len(res) |-> n + j])
                /\ returned' = Len(arrays) + 1
    /\ aggpc' = "returned"
    /\ UNCHANGED <<bars5min, targetFreq, given>>
    /\ UNCHANGED simVars
    /\ UNCHANGED catVars
    /\ UNCHANGED <<useVars, pageVars>>

NextAgg == AggregateToFrequency

SpecAgg == InitAgg /\ [][NextAgg]_vars

(***************************************************************************)
(* ChartRenderer.calculateBarDirections, calculateBodyRatios               *)
(***************************************************************************)
barDirection(bar) ==
    IF bar[5] > bar[2] THEN "UP"
    ELSE IF bar[5] < bar[2] THEN "DOWN"
    ELSE "FLAT"

calculateBarDirections(bars) ==
    [i \in 1..Len(bars) |-> barDirection(bars[i])]

\* mutant: a ratio of exactly 25 or 75 falls in the lower class
bodyRatioInclusive(bar) ==
    LET range == bar[3] - bar[4]
        body == Abs(bar[5] - bar[2])
    IN  IF range <= 0 THEN "<25%"
        ELSE IF 100 * body <= 25 * range THEN "<25%"
        ELSE IF 100 * body < 50 * range THEN "25-50%"
        ELSE IF 100 * body <= 75 * range THEN "50-75%"
        ELSE ">75%"

\* ratio = body / range * 100, and ratio < c iff 100 * body < c * range
bodyRatio(bar) ==
    LET range == bar[3] - bar[4]
        body == Abs(bar[5] - bar[2])
    IN  IF range <= 0 THEN "<25%"
        ELSE IF 100 * body < 25 * range THEN "<25%"
        ELSE IF 100 * body < 50 * range THEN "25-50%"
        ELSE IF 100 * body < 75 * range THEN "50-75%"
        ELSE ">75%"

calculateBodyRatios(bars) ==
    [i \in 1..Len(bars) |-> bodyRatio(bars[i])]

(***************************************************************************)
(* DataProcessor                                                           *)
(***************************************************************************)
MaxBarCap == 120
FullDay == 999
MinBars == 5

Has(r, f) == f \in DOMAIN r
\* the property f of the object r, d when it is undefined
Opt(r, f, d) == IF f \in DOMAIN r THEN r[f] ELSE d
includes(seq, x) == \E i \in 1..Len(seq) : seq[i] = x

\* the entry processCharts pushes for a day of a source
chartEntry(source, day) ==
    LET e == [source |-> source.name,
              date |-> day.date,
              gapDirection |-> day.gapDirection,
              gapSizeClass |-> day.gapSizeClass,
              openAbovePrevHigh |-> day.openAbovePrevHigh,
              closeBelowPrevLow |-> day.closeBelowPrevLow,
              bars |-> day.bars]
    IN  IF Has(day, "barDirections")
        THEN [f \in DOMAIN e \cup {"barDirections"} |->
                 IF f = "barDirections" THEN day.barDirections ELSE e[f]]
        ELSE e

\* the loops of processCharts from source i, day j on
RECURSIVE processFrom(_, _, _)
processFrom(sources, i, j) ==
    IF i > Len(sources) THEN <<>>
    ELSE IF j > Len(sources[i].tradingDays) THEN processFrom(sources, i + 1, 1)
    ELSE <<chartEntry(sources[i], sources[i].tradingDays[j])>>
         \o processFrom(sources, i, j + 1)

processCharts(raw) ==
    IF IsNull(raw) \/ ~Has(raw, "sources") THEN <<>>
    ELSE processFrom(raw.sources, 1, 1)

\* the loop of getMaxBarCount from entry i on
RECURSIVE maxBarsFrom(_, _, _)
maxBarsFrom(pcs, i, maxBars) ==
    IF i > Len(pcs) THEN maxBars
    ELSE IF Has(pcs[i], "barDirections")
            /\ Len(pcs[i].barDirections) > maxBars
    THEN maxBarsFrom(pcs, i + 1, Len(pcs[i].barDirections))
    ELSE maxBarsFrom(pcs, i + 1, maxBars)

getMaxBarCount(pcs) == Min2(maxBarsFrom(pcs, 1, 0), MaxBarCap)

\* aggregateToFrequency on the bars themselves
aggregateBars(bars, freq) ==
    IF freq = "5min" THEN bars
    ELSE aggregateFrom(bars, barsPerPeriod(freq), 0)

\* bars.slice(0, end)
sliceTo(bars, end) ==
    IF end >= 0 THEN SubSeq(bars, 1, Min2(end, Len(bars)))
    ELSE SubSeq(bars, 1, Len(bars) + end)

\* mutant: the directions are those of the base bars
getTradingDayDataBaseClasses(pcs, sourceName, date, frequency, maxBars) ==
    LET found == {i \in 1..Len(pcs) :
                     pcs[i].source = sourceName /\ pcs[i].date = date}
    IN  IF found = {} THEN NULL
        ELSE LET entry == pcs[MinOf(found)]
                 agg == aggregateBars(entry.bars, frequency)
                 bars == IF maxBars < FullDay /\ Len(agg) > maxBars
                         THEN sliceTo(agg, maxBars) ELSE agg
             IN  [source |-> entry.source,
                  date |-> entry.date,
                  frequency |-> frequency,
                  maxBars |-> maxBars,
                  gapDirection |-> entry.gapDirection,
                  gapSizeClass |-> entry.gapSizeClass,
                  openAbovePrevHigh |-> entry.openAbovePrevHigh,
                  closeBelowPrevLow |-> entry.closeBelowPrevLow,
                  bars |-> bars,
                  barDirections |->
                      calculateBarDirections(sliceTo(entry.bars, Len(bars))),
                  bodyRatios |-> calculateBodyRatios(bars)]

\* mutant: the truncation keeps one bar less than asked for
getTradingDayDataOneLess(pcs, sourceName, date, frequency, maxBars) ==
    LET found == {i \in 1..Len(pcs) :
                     pcs[i].source = sourceName /\ pcs[i].date = date}
    IN  IF found = {} THEN NULL
        ELSE LET entry == pcs[MinOf(found)]
                 agg == aggregateBars(entry.bars, frequency)
                 bars == IF maxBars < FullDay /\ Len(agg) >= maxBars
                         THEN sliceTo(agg, maxBars - 1) ELSE agg
             IN  [source |-> entry.source,
                  date |-> entry.date,
                  frequency |-> frequency,
                  maxBars |-> maxBars,
                  gapDirection |-> entry.gapDirection,
                  gapSizeClass |-> entry.gapSizeClass,
                  openAbovePrevHigh |-> entry.openAbovePrevHigh,
                  closeBelowPrevLow |-> entry.closeBelowPrevLow,
                  bars |-> bars,
                  barDirections |-> calculateBarDirections(bars),
                  bodyRatios |-> calculateBodyRatios(bars)]

getTradingDayData(pcs, sourceName, date, frequency, maxBars) ==
    LET found == {i \in 1..Len(pcs) :
                     pcs[i].source = sourceName /\ pcs[i].date = date}
    IN  IF found = {} THEN NULL
        ELSE LET entry == pcs[MinOf(found)]
                 agg == aggregateBars(entry.bars, frequency)
                 bars == IF maxBars < FullDay /\ Len(agg) > maxBars
                         THEN sliceTo(agg, maxBars) ELSE agg
             IN  [source |-> entry.source,
                  date |-> entry.date,
                  frequency |-> frequency,
                  maxBars |-> maxBars,
                  gapDirection |-> entry.gapDirection,
                  gapSizeClass |-> entry.gapSizeClass,
                  openAbovePrevHigh |-> entry.openAbovePrevHigh,
                  closeBelowPrevLow |-> entry.closeBelowPrevLow,
                  bars |-> bars,
                  barDirections |-> calculateBarDirections(bars),
                  bodyRatios |-> calculateBodyRatios(bars)]

\* the entry-level tests of getFilteredCharts
matchesPrevDay(entry, prevDayFilters) ==
    \A i \in 1..Len(prevDayFilters) :
        /\ ~(prevDayFilters[i] = "open_above_prev_high"
             /\ entry.openAbovePrevHigh # TRUE)
        /\ ~(prevDayFilters[i] = "close_below_prev_low"
             /\ entry.closeBelowPrevLow # TRUE)

\* mutant: an empty sources list lets no entry through
passesEntryEmptyRejects(entry, f) ==
    /\ includes(f.sources, entry.source)
    /\ ~(Len(f.gapDirections) > 0
         /\ ~includes(f.gapDirections, entry.gapDirection))
    /\ ~(Len(f.gapSizeClasses) > 0
         /\ ~includes(f.gapSizeClasses, entry.gapSizeClass))
    /\ (Len(f.prevDayFilters) > 0 => matchesPrevDay(entry, f.prevDayFilters))

passesEntry(entry, f) ==
    /\ ~(Len(f.sources) > 0 /\ ~includes(f.sources, entry.source))
    /\ ~(Len(f.gapDirections) > 0
         /\ ~includes(f.gapDirections, entry.gapDirection))
    /\ ~(Len(f.gapSizeClasses) > 0
         /\ ~includes(f.gapSizeClasses, entry.gapSizeClass))
    /\ (Len(f.prevDayFilters) > 0 => matchesPrevDay(entry, f.prevDayFilters))

\* seq[i] of JS: "undefined" outside the indices
At(seq, i) == IF i \in 0..(Len(seq) - 1) THEN seq[i + 1] ELSE "undefined"

\* mutant: a bar number past the last bar is not held against the view
matchesBarFilterLenient(chartData, bf) ==
    LET barIndex == bf.bar - 1
    IN  barIndex < Len(chartData.barDirections) =>
            /\ ~(At(chartData.barDirections, barIndex) # bf.direction)
            /\ (Has(bf, "bodyRatio") /\ bf.bodyRatio # "any") =>
                  ~(At(chartData.bodyRatios, barIndex) # bf.bodyRatio)

\* one bar filter of getFilteredCharts on a view
matchesBarFilter(chartData, bf) ==
    LET barIndex == bf.bar - 1
    IN  /\ ~(barIndex >= Len(chartData.barDirections))
        /\ ~(At(chartData.barDirections, barIndex) # bf.direction)
        /\ (Has(bf, "bodyRatio") /\ bf.bodyRatio # "any") =>
              /\ ~(barIndex >= Len(chartData.bodyRatios))
              /\ ~(At(chartData.bodyRatios, barIndex) # bf.bodyRatio)

matchesBarFilters(chartData, barFilters) ==
    \A i \in 1..Len(barFilters) : matchesBarFilter(chartData, barFilters[i])

\* `${entry.source}-${entry.date}-${freq}-${barsOpt}`
keyOf(entry, freq, barsOpt) ==
    entry.source \o "-" \o entry.date \o "-" \o freq
        \o "-" \o ToString(barsOpt)

withKey(chartData, key) ==
    [f \in DOMAIN chartData \cup {"key"} |->
        IF f = "key" THEN key ELSE chartData[f]]

\* the filter object with the defaults of the destructuring
destructure(filters) ==
    [sources |-> Opt(filters, "sources", <<>>),
     frequencies |-> Opt(filters, "frequencies", <<"5min">>),
     barsOptions |-> Opt(filters, "barsOptions", <<FullDay>>),
     gapDirections |-> Opt(filters, "gapDirections", <<>>),
     gapSizeClasses |-> Opt(filters, "gapSizeClasses", <<>>),
     prevDayFilters |-> Opt(filters, "prevDayFilters", <<>>),
     barFilters |-> Opt(filters, "barFilters", <<>>)]

\* mutant: views of four bars are let through
viewOfFourBars(pcs, entry, f, freq, barsOpt) ==
    LET chartData == getTradingDayData(pcs, entry.source, entry.date,
                                       freq, barsOpt)
    IN  IF IsNull(chartData) \/ Len(chartData.bars) < MinBars - 1 THEN <<>>
        ELSE IF Len(f.barFilters) > 0
                /\ ~matchesBarFilters(chartData, f.barFilters)
        THEN <<>>
        ELSE <<withKey(chartData, keyOf(entry, freq, barsOpt))>>

\* the body of the two inner loops for one frequency and one bars option
viewOf(pcs, entry, f, freq, barsOpt) ==
    LET chartData == getTradingDayData(pcs, entry.source, entry.date,
                                       freq, barsOpt)
    IN  IF IsNull(chartData) \/ Len(chartData.bars) < MinBars THEN <<>>
        ELSE IF Len(f.barFilters) > 0
                /\ ~matchesBarFilters(chartData, f.barFilters)
        THEN <<>>
        ELSE <<withKey(chartData, keyOf(entry, freq, barsOpt))>>

\* mutant: the bar-count options are the outer loop, the frequencies the
\* inner one
RECURSIVE filterFromOptionMajor(_, _, _, _, _)
filterFromOptionMajor(pcs, f, i, j, k) ==
    IF i > Len(pcs) THEN <<>>
    ELSE IF ~passesEntry(pcs[i], f) THEN filterFromOptionMajor(pcs, f, i + 1, 1, 1)
    ELSE IF j > Len(f.barsOptions) THEN filterFromOptionMajor(pcs, f, i + 1, 1, 1)
    ELSE IF k > Len(f.frequencies) THEN filterFromOptionMajor(pcs, f, i, j + 1, 1)
    ELSE viewOf(pcs, pcs[i], f, f.frequencies[k], f.barsOptions[j])
         \o filterFromOptionMajor(pcs, f, i, j, k + 1)

\* the loops of getFilteredCharts from entry i, frequency j, option k on
RECURSIVE filterFrom(_, _, _, _, _)
filterFrom(pcs, f, i, j, k) ==
    IF i > Len(pcs) THEN <<>>
    ELSE IF ~passesEntry(pcs[i], f) THEN filterFrom(pcs, f, i + 1, 1, 1)
    ELSE IF j > Len(f.frequencies) THEN filterFrom(pcs, f, i + 1, 1, 1)
    ELSE IF k > Len(f.barsOptions) THEN filterFrom(pcs, f, i, j + 1, 1)
    ELSE viewOf(pcs, pcs[i], f, f.frequencies[j], f.barsOptions[k])
         \o filterFrom(pcs, f, i, j, k + 1)

getFilteredCharts(pcs, filters) ==
    filterFrom(pcs, destructure(filters), 1, 1, 1)

(***************************************************************************)
(* The data files the processor is loaded with, the calls made on it       *)
(***************************************************************************)
MaxDays == 2

\* (open, high, low, close) shapes: body/range of 25%, 75%, no range, 50%, 0%
Shapes == << <<1, 5, 1, 2>>, <<4, 5, 1, 1>>, <<3, 3, 3, 3>>,
             <<2, 4, 2, 3>>, <<3, 5, 1, 3>> >>

MkBars(n, shift) ==
    [i \in 1..n |-> LET q == Shapes[((i + shift) % 5) + 1]
                    IN  <<i, q[1], q[2], q[3], q[4]>>]

MkDay(date, bars, gapDirection, gapSizeClass, above, below) ==
    [date |-> date, gapDirection |-> gapDirection,
     gapSizeClass |-> gapSizeClass, openAbovePrevHigh |-> above,
     closeBelowPrevLow |-> below, bars |-> bars,
     barDirections |-> calculateBarDirections(bars)]

\* a day of a file that carries no barDirections
Bare(day) == [f \in DOMAIN day \ {"barDirections"} |-> day[f]]

\* the days of source A: a short day, a day, a second day of the same date
\* with other bars and labels, a day of a file that carries no barDirections
DayList ==
    << MkDay("20240103", MkBars(4, 1), "GAP DOWN", "LARGE", FALSE, TRUE),
       MkDay("20240102", MkBars(10, 0), "GAP UP", "SMALL", TRUE, FALSE),
       MkDay("20240102", MkBars(5, 2), "GAP DOWN", "LARGE", FALSE, FALSE),
       Bare(MkDay("20240104", MkBars(15, 3), "GAP UP", "LARGE", TRUE, TRUE)) >>

Reverse(seq) == [i \in 1..Len(seq) |-> seq[Len(seq) + 1 - i]]

\* the runs of at most n consecutive elements of seq
Runs(seq, n) ==
    {<<>>} \cup
    UNION {{SubSeq(seq, i, i + k - 1) : k \in 1..Min2(n, Len(seq) - i + 1)} :
              i \in 1..Len(seq)}

DaySeqs == Runs(DayList, MaxDays) \cup Runs(Reverse(DayList), MaxDays)

OtherDays ==
    { <<>>,
      <<MkDay("20240102", MkBars(7, 4), "GAP DOWN", "SMALL", TRUE, TRUE)>>,
      <<MkDay("20240108", MkBars(121, 0), "GAP UP", "SMALL", FALSE, FALSE)>> }

\* the file after it was replaced on the server
ChangedFile ==
    [sources |-> << [name |-> "A",
                     tradingDays |-> <<DayList[3], DayList[2]>>],
                    [name |-> "B",
                     tradingDays |-> <<MkDay("20240102", MkBars(7, 4),
                                             "GAP DOWN", "SMALL", TRUE,
                                             TRUE)>>] >>]

DataFiles ==
    { [sources |-> << [name |-> "A", tradingDays |-> a],
                      [name |-> "B", tradingDays |-> b] >>] :
          a \in DaySeqs, b \in OtherDays }
    \cup { [sources |-> <<>>], [version |-> 1], NULL }

SourceNames == {"A", "B", "C"}
Dates == {"20240102", "20240103", "20240104", "20240108", "20240109"}
MaxBarsArgs == {1, 3, 5, 7, 120, 121, FullDay}

BarFilterSet ==
    { [bar |-> 0, direction |-> "DOWN"],
      [bar |-> 1, direction |-> "DOWN"],
      [bar |-> 1, direction |-> "UP"],
      [bar |-> 1, direction |-> "DOWN", bodyRatio |-> "any"],
      [bar |-> 1, direction |-> "DOWN", bodyRatio |-> ">75%"],
      [bar |-> 1, direction |-> "DOWN", bodyRatio |-> "<25%"],
      [bar |-> 2, direction |-> "FLAT"],
      [bar |-> 2, direction |-> "FLAT", bodyRatio |-> "<25%"],
      [bar |-> 3, direction |-> "UP", bodyRatio |-> "50-75%"],
      [bar |-> 3, direction |-> "UP", bodyRatio |-> "25-50%"],
      [bar |-> 6, direction |-> "DOWN"],
      [bar |-> 6, direction |-> "UP"],
      [bar |-> 8, direction |-> "UP", bodyRatio |-> "any"],
      [bar |-> 200, direction |-> "UP"] }

FilterOptions ==
    [sources |-> {<<>>, <<"A">>, <<"B">>, <<"B", "A">>, <<"C">>},
     frequencies |-> {<<>>, <<"5min">>, <<"10min">>, <<"15min">>,
                      <<"10min", "5min">>, <<"5min", "15min">>},
     barsOptions |-> {<<>>, <<FullDay>>, <<3>>, <<5>>, <<121>>,
                      <<7, FullDay>>, <<FullDay, 5>>},
     gapDirections |-> {<<>>, <<"GAP UP">>, <<"GAP DOWN">>,
                        <<"GAP UP", "GAP DOWN">>},
     gapSizeClasses |-> {<<>>, <<"SMALL">>, <<"LARGE">>,
                         <<"SMALL", "LARGE">>},
     prevDayFilters |-> {<<>>, <<"open_above_prev_high">>,
                         <<"close_below_prev_low">>,
                         <<"open_above_prev_high", "close_below_prev_low">>},
     barFilters |-> {<<>>} \cup {<<bf>> : bf \in BarFilterSet}
                    \cup { <<[bar |-> 1, direction |-> "DOWN"],
                             [bar |-> 2, direction |-> "FLAT"]>>,
                           <<[bar |-> 6, direction |-> "DOWN"],
                             [bar |-> 1, direction |-> "UP"]>> }]

Dimensions == DOMAIN FilterOptions

\* what the page passes when nothing is selected but the base views
AllFilters ==
    [sources |-> <<>>, frequencies |-> <<"5min">>,
     barsOptions |-> <<FullDay>>, gapDirections |-> <<>>,
     gapSizeClasses |-> <<>>, prevDayFilters |-> <<>>, barFilters |-> <<>>]

Without(f, dims) == [d \in DOMAIN f \ dims |-> f[d]]

\* the pairs of dimensions varied together: the entry-level dimensions with
\* one another, the frequencies with the bar-count options and with the
\* per-bar constraints
EntryDimensions ==
    {"sources", "gapDirections", "gapSizeClasses", "prevDayFilters"}
PairedDimensions ==
    {<<d, e>> \in EntryDimensions \X EntryDimensions : d # e}
    \cup {<<"frequencies", "barsOptions">>, <<"frequencies", "barFilters">>}

\* filter objects that differ from AllFilters in one dimension or in a pair
\* of dimensions, and the ones that leave dimensions out
FilterSet ==
    LET one == {[AllFilters EXCEPT ![d] = v] :
                   <<d, v>> \in UNION {{<<d, v>> : v \in FilterOptions[d]} :
                                         d \in Dimensions}}
        two == UNION {{[AllFilters EXCEPT ![de[1]] = v, ![de[2]] = w] :
                          v \in FilterOptions[de[1]],
                          w \in FilterOptions[de[2]]} :
                      de \in PairedDimensions}
    IN  one \cup two
        \cup {Without(f, dims) : f \in one,
                 dims \in {{"frequencies"}, {"barsOptions"},
                           {"frequencies", "barsOptions", "sources"},
                           Dimensions \ {"barFilters"}}}
        \cup {[x \in {} |-> <<>>]}

InitCat ==
    /\ SimOff
    /\ AggOff
    /\ UseOff
    /\ PageOff
    /\ dataFile = Pending
    /\ rawData = NULL
    /\ processedCharts = <<>>
    /\ call = [op |-> "none"]
    /\ ret = Pending
    /\ catpc = "start"
    /\ loading = Idle

\* the calls of public functions made in a behaviour, and the loadData
\* calls in flight at a time
MaxCalls == 4
MaxLoads == 2

\* loadData is an async function: a call runs up to `await fetch(...)`, from
\* there up to `await response.json()`, and from there to its end without
\* another await, calling progressCallback(80) before processCharts and
\* progressCallback(100) after it. Nothing in it keeps a call from starting
\* while others wait. loading holds the calls in flight: the number of those
\* that wait for their response, the bodies of those whose body is being
\* read, and where the one that runs after its second await is ("parsed"
\* inside progressCallback(80), "processed" inside progressCallback(100)).
\* While one runs, no other continuation and no frame callback can run, but
\* the callback can call the public functions. What the promise of the call
\* that settled last settled to is in ret.
InFlight ==
    loading.fetch + Len(loading.json)
        + (IF loading.running = "none" THEN 0 ELSE 1)

\* no call is between its second await and its end
Settled == loading.running = "none"

\* the call, up to the first await
LoadData ==
    /\ catpc \in {"start", "loaded"}
    /\ InFlight < MaxLoads
    /\ loading' = [loading EXCEPT !.fetch = @ + 1]
    /\ UNCHANGED <<dataFile, rawData, processedCharts, call, ret, catpc>>
    /\ UNCHANGED <<simVars, aggVars, useVars, pageVars>>

\* what the file holds when a response is made of it: any of the files the
\* first time, later the same again or the changed file
Responses ==
    IF dataFile = Pending THEN DataFiles ELSE {dataFile, ChangedFile}

\* a body that is not JSON
NotJson == [notJson |-> TRUE]

\* the fetch of one of the waiting calls settles: it rejects (no network), or
\* it resolves to a response that is not ok, and the call throws, the catch
\* block throws again and the promise rejects; or it resolves to an ok
\* response with the body the file has then, or with a body that is not JSON
LoadDataResponse ==
    /\ catpc \in {"start", "loaded"}
    /\ Settled
    /\ loading.fetch > 0
    /\ \/ \E raised \in {"TypeError", "Error"} :
             /\ loading' = [loading EXCEPT !.fetch = @ - 1]
             /\ call' = [op |-> "loadData"]
             /\ ret' = [raised |-> raised]
             /\ UNCHANGED dataFile
       \/ \E file \in Responses :
             /\ loading' = [loading EXCEPT !.fetch = @ - 1,
                                           !.json = Append(@, file)]
             /\ dataFile' = file
             /\ UNCHANGED <<call, ret>>
       \/ /\ loading' = [loading EXCEPT !.fetch = @ - 1,
                                        !.json = Append(@, NotJson)]
          /\ UNCHANGED <<dataFile, call, ret>>
    /\ UNCHANGED <<rawData, processedCharts, catpc>>
    /\ UNCHANGED <<simVars, aggVars, useVars, pageVars>>

\* s without its i-th element
Remove(s, i) == SubSeq(s, 1, i - 1) \o SubSeq(s, i + 1, Len(s))

\* the body of one of the calls is read: it is parsed and assigned to
\* rawData, and progressCallback(80) runs before processCharts; a body that
\* is not JSON throws
LoadDataJson ==
    /\ catpc \in {"start", "loaded"}
    /\ Settled
    /\ \E i \in 1..Len(loading.json) :
          IF loading.json[i] = NotJson
          THEN /\ loading' = [loading EXCEPT !.json = Remove(@, i)]
               /\ call' = [op |-> "loadData"]
               /\ ret' = [raised |-> "SyntaxError"]
               /\ UNCHANGED rawData
          ELSE /\ loading' = [loading EXCEPT !.json = Remove(@, i),
                                             !.running = "parsed"]
               /\ rawData' = loading.json[i]
               /\ UNCHANGED <<call, ret>>
    /\ UNCHANGED <<dataFile, processedCharts, catpc>>
    /\ UNCHANGED <<simVars, aggVars, useVars, pageVars>>

\* progressCallback(80) has returned: processCharts rebuilds the catalog,
\* and progressCallback(100) runs
LoadDataProcess ==
    /\ catpc \in {"start", "loaded"}
    /\ loading.running = "parsed"
    /\ processedCharts' = processCharts(rawData)
    /\ catpc' = "loaded"
    /\ loading' = [loading EXCEPT !.running = "processed"]
    /\ UNCHANGED <<dataFile, rawData, call, ret>>
    /\ UNCHANGED <<simVars, aggVars, useVars, pageVars>>

\* progressCallback(100) has returned: the promise resolves to rawData
LoadDataReturn ==
    /\ catpc \in {"start", "loaded"}
    /\ loading.running = "processed"
    /\ call' = [op |-> "loadData"]
    /\ ret' = rawData
    /\ loading' = [loading EXCEPT !.running = "none"]
    /\ UNCHANGED <<dataFile, rawData, processedCharts, catpc>>
    /\ UNCHANGED <<simVars, aggVars, useVars, pageVars>>

\* the catalog is at rest: no loadData call is in flight, and none was made
\* yet or the last one resolved
AtRest ==
    /\ InFlight = 0
    /\ \/ call.op = "none"
       \/ call.op = "loadData" /\ ret = rawData

\* the arguments a call is tried with: all of them on the catalog at rest,
\* a few of them while calls are in flight, inside the callbacks and after
\* a call that failed
Tried(all, few) == IF AtRest THEN all ELSE few

FewFilters ==
    {AllFilters, [AllFilters EXCEPT !.frequencies = <<"10min", "5min">>]}

\* one call of the public API; the catalog is empty before the first load
GetMaxBarCount ==
    /\ catpc \in {"start", "loaded"}
    /\ call' = [op |-> "getMaxBarCount"]
    /\ ret' = getMaxBarCount(processedCharts)
    /\ catpc' = "returned"
    /\ UNCHANGED <<dataFile, rawData, processedCharts, loading>>
    /\ UNCHANGED <<simVars, aggVars, useVars, pageVars>>

GetTradingDayData ==
    /\ catpc \in {"start", "loaded"}
    /\ \E sourceName \in Tried(SourceNames, {"A"}),
          date \in Tried(Dates, {"20240102"}),
          frequency \in Tried(Freqs, {"5min"}),
          maxBars \in Tried(MaxBarsArgs, {5, FullDay}) :
          /\ call' = [op |-> "getTradingDayData", sourceName |-> sourceName,
                      date |-> date, frequency |-> frequency,
                      maxBars |-> maxBars]
          /\ ret' = getTradingDayData(processedCharts, sourceName, date,
                                      frequency, maxBars)
    /\ catpc' = "returned"
    /\ UNCHANGED <<dataFile, rawData, processedCharts, loading>>
    /\ UNCHANGED <<simVars, aggVars, useVars, pageVars>>

GetFilteredCharts ==
    /\ catpc \in {"start", "loaded"}
    /\ \E filters \in Tried(FilterSet, FewFilters) :
          /\ call' = [op |-> "getFilteredCharts", filters |-> filters]
          /\ ret' = getFilteredCharts(processedCharts, filters)
    /\ catpc' = "returned"
    /\ UNCHANGED <<dataFile, rawData, processedCharts, loading>>
    /\ UNCHANGED <<simVars, aggVars, useVars, pageVars>>

NextCat ==
    \/ LoadData
    \/ LoadDataResponse
    \/ LoadDataJson
    \/ LoadDataProcess
    \/ LoadDataReturn
    \/ GetMaxBarCount
    \/ GetTradingDayData
    \/ GetFilteredCharts

SpecCat == InitCat /\ [][NextCat]_vars

(***************************************************************************)
(* The data processor on the heap: the catalog holds its bars by           *)
(* reference, and so do the views; calls follow one another                *)
(***************************************************************************)
\* a heap, the bars an array reference holds in it, the last array made
Heap == [arrays |-> arrays, barObjs |-> barObjs]
derefIn(h, a) == [j \in 1..Len(h.arrays[a]) |-> h.barObjs[h.arrays[a][j]]]
lastRef(h) == Len(h.arrays)

\* a new array of the bar references refs
allocArray(h, refs) == [h EXCEPT !.arrays = Append(@, refs)]

\* new bar arrays for bars and a new array of them
allocBars(h, bars) ==
    [arrays |-> Append(h.arrays,
                       [j \in 1..Len(bars) |-> Len(h.barObjs) + j]),
     barObjs |-> h.barObjs \o bars]

\* response.json() on heap h: the bars of every day are new arrays
RECURSIVE parseDays(_, _, _)
parseDays(h, days, i) ==
    IF i > Len(days) THEN [heap |-> h, value |-> <<>>]
    ELSE LET h1 == allocBars(h, days[i].bars)
             rest == parseDays(h1, days, i + 1)
         IN  [heap |-> rest.heap,
              value |-> <<[days[i] EXCEPT !.bars = lastRef(h1)]>>
                        \o rest.value]

RECURSIVE parseSources(_, _, _)
parseSources(h, sources, i) ==
    IF i > Len(sources) THEN [heap |-> h, value |-> <<>>]
    ELSE LET days == parseDays(h, sources[i].tradingDays, 1)
             rest == parseSources(days.heap, sources, i + 1)
         IN  [heap |-> rest.heap,
              value |-> <<[sources[i] EXCEPT !.tradingDays = days.value]>>
                        \o rest.value]

parseIn(h, file) ==
    IF IsNull(file) \/ ~Has(file, "sources") THEN [heap |-> h, value |-> file]
    ELSE LET r == parseSources(h, file.sources, 1)
         IN  [heap |-> r.heap, value |-> [file EXCEPT !.sources = r.value]]

\* mutant: the view takes the entry's own array and shortens it in place
getTradingDayDataInPlace(h, pcs, sourceName, date, frequency, maxBars) ==
    LET found == {i \in 1..Len(pcs) :
                     pcs[i].source = sourceName /\ pcs[i].date = date}
    IN  IF found = {} THEN [heap |-> h, value |-> NULL]
        ELSE LET entry == pcs[MinOf(found)]
                 a1 == entry.bars
                 h2 == IF frequency = "5min" THEN h
                       ELSE allocBars(h, aggregateFrom(derefIn(h, a1),
                                          barsPerPeriod(frequency), 0))
                 a2 == IF frequency = "5min" THEN a1 ELSE lastRef(h2)
                 cut == maxBars < FullDay /\ Len(h2.arrays[a2]) > maxBars
                 h3 == IF cut
                       THEN [h2 EXCEPT !.arrays[a2] = sliceTo(@, maxBars)]
                       ELSE h2
                 bars == derefIn(h3, a2)
             IN  [heap |-> h3,
                  value |-> [source |-> entry.source,
                             date |-> entry.date,
                             frequency |-> frequency,
                             maxBars |-> maxBars,
                             gapDirection |-> entry.gapDirection,
                             gapSizeClass |-> entry.gapSizeClass,
                             openAbovePrevHigh |-> entry.openAbovePrevHigh,
                             closeBelowPrevLow |-> entry.closeBelowPrevLow,
                             bars |-> a2,
                             barDirections |-> calculateBarDirections(bars),
                             bodyRatios |-> calculateBodyRatios(bars)]]

\* getTradingDayData on heap h: [...entry.bars] is a new array of the same
\* bars, aggregateToFrequency returns it for '5min' and new bars otherwise,
\* slice is a new array
getTradingDayDataIn(h, pcs, sourceName, date, frequency, maxBars) ==
    LET found == {i \in 1..Len(pcs) :
                     pcs[i].source = sourceName /\ pcs[i].date = date}
    IN  IF found = {} THEN [heap |-> h, value |-> NULL]
        ELSE LET entry == pcs[MinOf(found)]
                 h1 == allocArray(h, h.arrays[entry.bars])
                 a1 == lastRef(h1)
                 h2 == IF frequency = "5min" THEN h1
                       ELSE allocBars(h1, aggregateFrom(derefIn(h1, a1),
                                           barsPerPeriod(frequency), 0))
                 a2 == IF frequency = "5min" THEN a1 ELSE lastRef(h2)
                 cut == maxBars < FullDay /\ Len(h2.arrays[a2]) > maxBars
                 h3 == IF cut
                       THEN allocArray(h2, sliceTo(h2.arrays[a2], maxBars))
                       ELSE h2
                 a3 == IF cut THEN lastRef(h3) ELSE a2
                 bars == derefIn(h3, a3)
             IN  [heap |-> h3,
                  value |-> [source |-> entry.source,
                             date |-> entry.date,
                             frequency |-> frequency,
                             maxBars |-> maxBars,
                             gapDirection |-> entry.gapDirection,
                             gapSizeClass |-> entry.gapSizeClass,
                             openAbovePrevHigh |-> entry.openAbovePrevHigh,
                             closeBelowPrevLow |-> entry.closeBelowPrevLow,
                             bars |-> a3,
                             barDirections |-> calculateBarDirections(bars),
                             bodyRatios |-> calculateBodyRatios(bars)]]

\* the loops of getFilteredCharts on heap h
RECURSIVE filterFromIn(_, _, _, _, _, _)
filterFromIn(h, pcs, f, i, j, k) ==
    IF i > Len(pcs) THEN [heap |-> h, value |-> <<>>]
    ELSE IF ~passesEntry(pcs[i], f) THEN filterFromIn(h, pcs, f, i + 1, 1, 1)
    ELSE IF j > Len(f.frequencies) THEN filterFromIn(h, pcs, f, i + 1, 1, 1)
    ELSE IF k > Len(f.barsOptions) THEN filterFromIn(h, pcs, f, i, j + 1, 1)
    ELSE LET freq == f.frequencies[j]
             barsOpt == f.barsOptions[k]
             r == getTradingDayDataIn(h, pcs, pcs[i].source, pcs[i].date,
                                      freq, barsOpt)
             rest == filterFromIn(r.heap, pcs, f, i, j, k + 1)
             out == IF IsNull(r.value)
                       \/ Len(r.heap.arrays[r.value.bars]) < MinBars
                    THEN <<>>
                    ELSE IF Len(f.barFilters) > 0
                            /\ ~matchesBarFilters(r.value, f.barFilters)
                    THEN <<>>
                    ELSE <<withKey(r.value, keyOf(pcs[i], freq, barsOpt))>>
         IN  [heap |-> rest.heap, value |-> out \o rest.value]

getFilteredChartsIn(h, pcs, filters) ==
    filterFromIn(h, pcs, destructure(filters), 1, 1, 1)

\* a view and a list of views with the bars they refer to
Valued(view) ==
    IF IsNull(view) THEN NULL ELSE [view EXCEPT !.bars = Deref(@)]
ValuedList(views) == [n \in 1..Len(views) |-> Valued(views[n])]

\* the catalog with the bars its entries refer to
CatalogValue ==
    [n \in 1..Len(processedCharts) |->
        [processedCharts[n] EXCEPT !.bars = Deref(@)]]

UseFiles ==
    { [sources |-> << [name |-> "A", tradingDays |-> a],
                      [name |-> "B", tradingDays |-> b] >>] :
          <<a, b>> \in { <<SubSeq(DayList, 2, 2),
                           <<MkDay("20240102", MkBars(7, 4), "GAP DOWN",
                                   "SMALL", TRUE, TRUE)>> >>,
                         <<SubSeq(DayList, 2, 3), <<>> >> } }

UseFilters ==
    { [x \in {} |-> <<>>],
      [frequencies |-> <<"10min", "5min">>],
      [barsOptions |-> <<5>>],
      [barFilters |-> <<[bar |-> 1, direction |-> "DOWN"]>>] }

UseParams ==
    { [triggerBar |-> Num(1, FALSE), direction |-> d,
       targetPct |-> 50, stopPct |-> 50] : d \in Directions }

InitUse ==
    /\ SimOff
    /\ AggOff
    /\ PageOff
    /\ UseOff
    /\ dataFile \in UseFiles
    /\ rawData = NULL
    /\ processedCharts = <<>>
    /\ call = [op |-> "none"]
    /\ ret = Pending
    /\ catpc = "start"
    /\ loading = Idle

\* a list of views with the bars they refer to on heap h
ValuedListIn(h, views) ==
    [n \in 1..Len(views) |-> [views[n] EXCEPT !.bars = derefIn(h, @)]]

\* loadData up to the first await, as one of the calls that are counted
LoadUse ==
    /\ ncalls < MaxCalls
    /\ InFlight < MaxLoads
    /\ loading' = [loading EXCEPT !.fetch = @ + 1]
    /\ ncalls' = ncalls + 1
    /\ UNCHANGED <<dataFile, rawData, processedCharts, call, ret, catpc>>
    /\ UNCHANGED <<previous, simVars, aggVars, pageVars>>

\* the body of one of the calls is read: rawData holds the new arrays of the
\* bars
LoadUseJson ==
    /\ Settled
    /\ \E i \in 1..Len(loading.json) :
          IF loading.json[i] = NotJson
          THEN /\ loading' = [loading EXCEPT !.json = Remove(@, i)]
               /\ call' = [op |-> "loadData"]
               /\ ret' = [raised |-> "SyntaxError"]
               /\ UNCHANGED <<rawData, arrays, barObjs>>
          ELSE LET r == parseIn(Heap, loading.json[i])
               IN  /\ loading' = [loading EXCEPT !.json = Remove(@, i),
                                                 !.running = "parsed"]
                   /\ rawData' = r.value
                   /\ arrays' = r.heap.arrays
                   /\ barObjs' = r.heap.barObjs
                   /\ UNCHANGED <<call, ret>>
    /\ UNCHANGED <<dataFile, processedCharts, catpc>>
    /\ UNCHANGED <<simVars, useVars, pageVars>>
    /\ UNCHANGED <<bars5min, targetFreq, returned, given, aggpc>>

\* processCharts: every entry holds the bars array of its day; previous is
\* the last getFilteredCharts call on the present catalog: its filter
\* object, the views it returned, whether the call before it on this
\* catalog had the same filter object
LoadUseProcess ==
    /\ loading.running = "parsed"
    /\ processedCharts' = processCharts(rawData)
    /\ catpc' = "loaded"
    /\ loading' = [loading EXCEPT !.running = "processed"]
    /\ previous' = NULL
    /\ UNCHANGED <<dataFile, rawData, call, ret, ncalls>>
    /\ UNCHANGED <<simVars, aggVars, pageVars>>

\* the promise resolves to rawData itself
LoadUseReturn ==
    /\ loading.running = "processed"
    /\ call' = [op |-> "loadData"]
    /\ ret' = rawData
    /\ loading' = [loading EXCEPT !.running = "none"]
    /\ UNCHANGED <<dataFile, rawData, processedCharts, catpc>>
    /\ UNCHANGED <<simVars, aggVars, useVars, pageVars>>

ViewUse ==
    /\ ncalls < MaxCalls
    /\ \E sourceName \in {"A", "C"}, frequency \in {"5min", "10min"},
          maxBars \in {5} :
          LET r == getTradingDayDataIn(Heap, processedCharts, sourceName,
                                       "20240102", frequency, maxBars)
          IN  /\ call' = [op |-> "getTradingDayData",
                          sourceName |-> sourceName, date |-> "20240102",
                          frequency |-> frequency, maxBars |-> maxBars]
              /\ ret' = r.value
              /\ arrays' = r.heap.arrays
              /\ barObjs' = r.heap.barObjs
    /\ UNCHANGED previous
    /\ ncalls' = ncalls + 1
    /\ UNCHANGED <<dataFile, rawData, processedCharts, catpc, loading>>
    /\ UNCHANGED <<simVars, pageVars>>
    /\ UNCHANGED <<bars5min, targetFreq, returned, given, aggpc>>

\* getFilteredCharts has returned r.value and left the heap r.heap; the page
\* keeps the list for the simulator
GenerateUseTo(filters, r) ==
    /\ call' = [op |-> "getFilteredCharts", filters |-> filters]
    /\ ret' = r.value
    /\ charts' = r.value
    /\ previous' = [filters |-> filters,
                    views |-> ValuedListIn(r.heap, r.value),
                    again |-> previous # NULL /\ previous.filters = filters]
    /\ arrays' = r.heap.arrays
    /\ barObjs' = r.heap.barObjs

GenerateUse ==
    /\ ncalls < MaxCalls
    /\ \E filters \in UseFilters :
          GenerateUseTo(filters,
                        getFilteredChartsIn(Heap, processedCharts, filters))
    /\ ncalls' = ncalls + 1
    /\ UNCHANGED <<dataFile, rawData, processedCharts, catpc, loading>>
    /\ UNCHANGED pageVars
    /\ UNCHANGED <<params, result, pc>>
    /\ UNCHANGED <<bars5min, targetFreq, returned, given, aggpc>>

\* TradeSimulator.simulate on the list last generated
SimulateUse ==
    /\ ncalls < MaxCalls
    /\ \E p \in UseParams :
          /\ call' = [op |-> "simulate", params |-> p]
          /\ ret' = simulate(ValuedList(charts), p)
    /\ UNCHANGED previous
    /\ ncalls' = ncalls + 1
    /\ UNCHANGED <<dataFile, rawData, processedCharts, catpc, loading>>
    /\ UNCHANGED <<simVars, pageVars>>
    /\ UNCHANGED aggVars

NextUse ==
    \/ LoadUse
    \/ LoadDataResponse
    \/ LoadUseJson
    \/ LoadUseProcess
    \/ LoadUseReturn
    \/ ViewUse
    \/ GenerateUse
    \/ SimulateUse

SpecUse == InitUse /\ [][NextUse]_vars

(***************************************************************************)
(* The page: applyFilters, the deferred rendering, Exporter                *)
(***************************************************************************)
MaxFrames == 2
MaxExports == 1

MAX_CHARTS == 50

\* parseInt of the date strings of the files
parseInt(date) ==
    CASE date = "20240102" -> 20240102
      [] date = "20240103" -> 20240103
      [] date = "20240104" -> 20240104
      [] date = "20240108" -> 20240108
      [] date = "20240109" -> 20240109

\* sorted with chart put after the charts that do not compare greater
RECURSIVE insertByDate(_, _)
insertByDate(sorted, chart) ==
    IF sorted = <<>> THEN <<chart>>
    ELSE IF parseInt(Head(sorted).date) - parseInt(chart.date) > 0
    THEN <<chart>> \o sorted
    ELSE <<Head(sorted)>> \o insertByDate(Tail(sorted), chart)

\* [...charts].sort((a, b) => parseInt(a.date) - parseInt(b.date)), the sort
\* being stable
RECURSIVE sortByDate(_)
sortByDate(cs) ==
    IF cs = <<>> THEN <<>>
    ELSE insertByDate(sortByDate(SubSeq(cs, 1, Len(cs) - 1)), cs[Len(cs)])

\* the filter objects applyFilters builds from the checked boxes
PageFilters ==
    { AllFilters,
      [AllFilters EXCEPT !.sources = <<"B">>],
      [AllFilters EXCEPT !.frequencies = <<>>] }

\* the names of the sources, as getSources returns them
RECURSIVE namesFrom(_, _)
namesFrom(sources, i) ==
    IF i > Len(sources) THEN <<>>
    ELSE <<sources[i].name>> \o namesFrom(sources, i + 1)
getSources(raw) ==
    IF IsNull(raw) \/ ~Has(raw, "sources") THEN <<>>
    ELSE namesFrom(raw.sources, 1)

\* the filter object after clearFilters: every box checked but those of the
\* prior day, no bar filter; the page has boxes for 5min, 10min and the full
\* day, and a box for each source once populateSourceFilter has made them
ClearedFilters(populated) ==
    [sources |-> IF populated THEN getSources(rawData) ELSE <<>>,
     frequencies |-> <<"5min", "10min">>,
     barsOptions |-> <<FullDay>>,
     gapDirections |-> <<"GAP UP", "GAP DOWN">>,
     gapSizeClasses |-> <<"SMALL", "LARGE">>,
     prevDayFilters |-> <<>>,
     barFilters |-> <<>>]

\* a file of two sources whose days are not in ascending order of date, a
\* file with two days of one date, a file without days
PageFiles ==
    { [sources |-> << [name |-> "A", tradingDays |-> <<DayList[4]>>],
                      [name |-> "B",
                       tradingDays |-> <<MkDay("20240102", MkBars(7, 4),
                                               "GAP DOWN", "SMALL", TRUE,
                                               TRUE)>>] >>],
      [sources |-> << [name |-> "A", tradingDays |-> SubSeq(DayList, 2, 3)],
                      [name |-> "B", tradingDays |-> <<>>] >>],
      [sources |-> <<>>] }

InitPage ==
    /\ SimOff
    /\ AggOff
    /\ UseOff
    /\ dataFile \in PageFiles
    /\ rawData = NULL
    /\ processedCharts = <<>>
    /\ call = [op |-> "none"]
    /\ ret = Pending
    /\ catpc = "start"
    /\ loading = Idle
    /\ toDisplay = <<>>
    /\ containers = <<>>
    /\ currentCharts = <<>>
    /\ exported = [format |-> "none", pairs |-> <<>>]
    /\ frames = <<>>
    /\ exports = <<>>

\* Exporter.setCharts
setCharts(cs) == sortByDate(cs)

\* the body of applyFilters with the filter object of the boxes: the charts
\* are destroyed, the list is filtered and cut, the exporter gets it, the
\* gallery gets one card with an empty container per chart (or the no-results
\* paragraph) and an animation frame is requested that closes over the list
applyFilters(op, filters) ==
    /\ call' = [op |-> op, filters |-> filters]
    /\ ret' = getFilteredCharts(processedCharts, filters)
    /\ toDisplay' = sliceTo(ret', MAX_CHARTS)
    /\ currentCharts' = setCharts(toDisplay')
    /\ containers' = [i \in 1..Len(toDisplay') |-> NULL]
    /\ frames' = IF Len(toDisplay') = 0 THEN frames
                 ELSE Append(frames, toDisplay')
    /\ UNCHANGED <<dataFile, rawData, processedCharts, catpc, loading>>
    /\ UNCHANGED <<exported, exports>>
    /\ ncalls' = ncalls + 1
    /\ UNCHANGED <<simVars, aggVars, previous>>

ApplyFilters ==
    /\ ncalls < MaxCalls
    /\ Len(frames) < MaxFrames
    /\ \E filters \in PageFilters : applyFilters("applyFilters", filters)

ClearFilters ==
    /\ ncalls < MaxCalls
    /\ Len(frames) < MaxFrames
    /\ \E populated \in BOOLEAN :
          applyFilters("clearFilters", ClearedFilters(populated))

\* ChartRenderer.destroyChart(`chart-${index}`): the container is emptied
destroyChart(shown, index) ==
    IF index + 1 \in DOMAIN shown THEN [shown EXCEPT ![index + 1] = NULL]
    ELSE shown

\* ChartRenderer.createChart(`chart-${index}`, bars): nothing without the
\* container, else the container holds a chart of the bars
createChart(shown, index, bars) ==
    IF index + 1 \in DOMAIN shown
    THEN [shown EXCEPT ![index + 1] = [chart |-> bars]]
    ELSE shown

\* toDisplay.forEach((chartData, index) => createChart(...)) from index on
RECURSIVE forEachChart(_, _, _)
forEachChart(shown, list, index) ==
    IF index >= Len(list) THEN shown
    ELSE forEachChart(createChart(shown, index, list[index + 1].bars),
                      list, index + 1)

\* the oldest animation frame callback runs: it draws the list it closed
\* over into the containers the gallery has now
RenderCharts ==
    /\ Settled
    /\ frames # <<>>
    /\ containers' = forEachChart(containers, Head(frames), 0)
    /\ frames' = Tail(frames)
    /\ UNCHANGED <<toDisplay, currentCharts, exported, exports>>
    /\ UNCHANGED <<catVars, simVars, aggVars, useVars>>

\* calls of the public functions of ChartRenderer and Exporter from outside
\* applyFilters
PageBars == MkBars(7, 4)
PageIndexes == {0, 2}

CreateChart ==
    /\ ncalls < MaxCalls
    /\ \E index \in PageIndexes :
          /\ call' = [op |-> "createChart", index |-> index]
          /\ containers' = createChart(containers, index, PageBars)
    /\ UNCHANGED <<dataFile, rawData, processedCharts, ret, catpc, loading>>
    /\ UNCHANGED <<toDisplay, currentCharts, exported, frames, exports>>
    /\ ncalls' = ncalls + 1
    /\ UNCHANGED <<simVars, aggVars, previous>>

DestroyChart ==
    /\ ncalls < MaxCalls
    /\ \E index \in PageIndexes :
          /\ call' = [op |-> "destroyChart", index |-> index]
          /\ containers' = destroyChart(containers, index)
    /\ UNCHANGED <<dataFile, rawData, processedCharts, ret, catpc, loading>>
    /\ UNCHANGED <<toDisplay, currentCharts, exported, frames, exports>>
    /\ ncalls' = ncalls + 1
    /\ UNCHANGED <<simVars, aggVars, previous>>

DestroyAllCharts ==
    /\ ncalls < MaxCalls
    /\ call' = [op |-> "destroyAllCharts"]
    /\ containers' = [i \in DOMAIN containers |-> NULL]
    /\ UNCHANGED <<dataFile, rawData, processedCharts, ret, catpc, loading>>
    /\ UNCHANGED <<toDisplay, currentCharts, exported, frames, exports>>
    /\ ncalls' = ncalls + 1
    /\ UNCHANGED <<simVars, aggVars, previous>>

SetCharts ==
    /\ ncalls < MaxCalls
    /\ \E cs \in {<<>>, Reverse(toDisplay)} :
          /\ call' = [op |-> "setCharts"]
          /\ currentCharts' = setCharts(cs)
    /\ UNCHANGED <<dataFile, rawData, processedCharts, ret, catpc, loading>>
    /\ UNCHANGED <<toDisplay, containers, exported, frames, exports>>
    /\ ncalls' = ncalls + 1
    /\ UNCHANGED <<simVars, aggVars, previous>>

\* chartToImage(`chart-${index}`): null without the container or without a
\* chart in it, else the picture of the bars it shows
chartToImage(shown, index) ==
    IF index + 1 \in DOMAIN shown /\ ~IsNull(shown[index + 1])
    THEN [png |-> shown[index + 1].chart]
    ELSE NULL

\* the last page operation was applyFilters and its frame has run
Rendered == call.op \in {"applyFilters", "clearFilters"} /\ frames = <<>>

\* an export up to its first await: iteration 0 has read its chart and the
\* image of its container
startExport(format) ==
    [format |-> format, stage |-> "image", i |-> 0,
     chart |-> currentCharts[1],
     imageData |-> chartToImage(containers, 0),
     pairs |-> <<>>]

\* exportToMarkdown: an alert without charts, else the loop up to its first
\* await
ExportToMarkdown ==
    /\ ncalls < MaxCalls
    /\ Len(exports) < MaxExports
    /\ call' = [op |-> "exportToMarkdown",
                after |-> Rendered /\ exports = <<>>,
                started |-> Len(currentCharts) # 0]
    /\ exports' = IF Len(currentCharts) = 0 THEN exports
                  ELSE Append(exports, startExport("markdown"))
    /\ UNCHANGED <<dataFile, rawData, processedCharts, ret, catpc, loading>>
    /\ UNCHANGED <<toDisplay, containers, currentCharts, exported, frames>>
    /\ ncalls' = ncalls + 1
    /\ UNCHANGED <<simVars, aggVars, previous>>

\* exportToPowerPoint: an alert without charts or without the PptxGenJS
\* library, else the loop up to its first await
ExportToPowerPoint ==
    /\ ncalls < MaxCalls
    /\ Len(exports) < MaxExports
    /\ \E library \in BOOLEAN :
          /\ call' = [op |-> "exportToPowerPoint",
                      after |-> Rendered /\ exports = <<>>,
                      started |-> Len(currentCharts) # 0 /\ library]
          /\ exports' = IF call'.started
                        THEN Append(exports, startExport("pptx"))
                        ELSE exports
    /\ UNCHANGED <<dataFile, rawData, processedCharts, ret, catpc, loading>>
    /\ UNCHANGED <<toDisplay, containers, currentCharts, exported, frames>>
    /\ ncalls' = ncalls + 1
    /\ UNCHANGED <<simVars, aggVars, previous>>

\* an export resumes after `await this.chartToImage(...)`: the chart read
\* before the await goes into the document with the image; the loop tests
\* the length of currentCharts as it is now and either reads the next chart
\* and image and awaits again, or ends: the markdown file is downloaded, the
\* PowerPoint slides are handed to writeFile, which is awaited
ExportResume ==
    /\ Settled
    /\ \E n \in 1..Len(exports) :
        LET e == exports[n]
            pairs == Append(e.pairs, [chart |-> e.chart, image |-> e.imageData])
            i == e.i + 1
        IN  /\ e.stage = "image"
            /\ IF i < Len(currentCharts)
               THEN /\ exports' =
                          [exports EXCEPT ![n] =
                              [e EXCEPT !.i = i,
                                        !.chart = currentCharts[i + 1],
                                        !.imageData = chartToImage(containers, i),
                                        !.pairs = pairs]]
                    /\ UNCHANGED exported
               ELSE IF e.format = "markdown"
               THEN /\ exports' = Remove(exports, n)
                    /\ exported' = [format |-> "markdown", pairs |-> pairs]
               ELSE /\ exports' =
                          [exports EXCEPT ![n] =
                              [e EXCEPT !.stage = "write", !.pairs = pairs]]
                    /\ UNCHANGED exported
            /\ UNCHANGED <<toDisplay, containers, currentCharts, frames>>
            /\ UNCHANGED <<catVars, simVars, aggVars, useVars>>

\* `await pptx.writeFile(...)` settles: it resolves, and the file holds the
\* slides built before the await; or it rejects, the catch block reports the
\* error, the export is over and no file is written
ExportWritten ==
    /\ Settled
    /\ \E n \in 1..Len(exports) :
        /\ exports[n].stage = "write"
        /\ exports' = Remove(exports, n)
        /\ \/ exported' = [format |-> "pptx", pairs |-> exports[n].pairs]
           \/ UNCHANGED exported
        /\ UNCHANGED <<toDisplay, containers, currentCharts, frames>>
        /\ UNCHANGED <<catVars, simVars, aggVars, useVars>>

NextPage ==
    \/ LoadUse
    \/ LoadDataResponse
    \/ LoadDataJson
    \/ LoadDataProcess
    \/ LoadDataReturn
    \/ ApplyFilters
    \/ ClearFilters
    \/ RenderCharts
    \/ CreateChart
    \/ DestroyChart
    \/ DestroyAllCharts
    \/ SetCharts
    \/ ExportToMarkdown
    \/ ExportToPowerPoint
    \/ ExportResume
    \/ ExportWritten

SpecPage == InitPage /\ [][NextPage]_vars

(***************************************************************************)
(* Properties of the simulator (SpecSim)                                   *)
(***************************************************************************)
Done == pc = "done"

\* params as the specification requires them: triggerBar an integer >= 1,
\* direction Long or Short, both percentages > 0
WellFormed(p) ==
    /\ IsInteger(p.triggerBar) /\ p.triggerBar.whole >= 1
    /\ p.direction \in {"Long", "Short"}
    /\ p.targetPct > 0
    /\ p.stopPct > 0

NoTrade == [outcome |-> "NONE"]
\* the trade reported for the k-th view
Trade(k) == IF "trades" \in DOMAIN result /\ k <= Len(result.trades)
            THEN result.trades[k] ELSE NoTrade

\* the trigger bar of view v exists and has a positive range
TriggerOk(v, p) ==
    /\ p.triggerBar.whole <= Len(v.bars)
    /\ v.bars[p.triggerBar.whole][3] - v.bars[p.triggerBar.whole][4] > 0
Lv(v, p) == levels(v.bars[p.triggerBar.whole], p)
HT(v, p, i) == hitTarget(v.bars[i], p, Lv(v, p).targetPrice)
HS(v, p, i) == hitStop(v.bars[i], p, Lv(v, p).stopPrice)
\* the bars strictly after the trigger at which target or stop fires
FiringBars(v, p) ==
    LET lv == Lv(v, p)
    IN  {i \in (p.triggerBar.whole + 1)..Len(v.bars) :
            \/ hitTarget(v.bars[i], p, lv.targetPrice)
            \/ hitStop(v.bars[i], p, lv.stopPrice)}
FirstFiring(v, p) == MinOf(FiringBars(v, p))
Fired(v, p) == TriggerOk(v, p) /\ FiringBars(v, p) # {}
Views == 1..Len(charts)

\* C1: the first bar after the trigger at which target or stop fires decides:
\* only the target there is a WIN with pnl +targetOffset, only the stop a LOSS
\* with pnl -stopOffset, whatever the bars after it are.
C1_FirstFiringBarDecides ==
    (Done /\ WellFormed(params)) =>
        \A k \in Views :
            Fired(charts[k], params) =>
                LET v == charts[k]
                    f == FirstFiring(v, params)
                IN  /\ (HT(v, params, f) /\ ~HS(v, params, f)) =>
                           /\ Is(Trade(k), "outcome", "WIN")
                           /\ Is(Trade(k), "pnl", Lv(v, params).targetOffset)
                    /\ (HS(v, params, f) /\ ~HT(v, params, f)) =>
                           /\ Is(Trade(k), "outcome", "LOSS")
                           /\ Is(Trade(k), "pnl", fNeg(Lv(v, params).stopOffset))

\* a WIN decided by a bar that is followed by a bar at which the stop fires
C1_Witness ==
    /\ Done /\ WellFormed(params) /\ Len(charts) = 1
    /\ Fired(charts[1], params)
    /\ LET v == charts[1]
           f == FirstFiring(v, params)
       IN  /\ HT(v, params, f) /\ ~HS(v, params, f)
           /\ f < Len(v.bars)
           /\ HS(v, params, f + 1) /\ ~HT(v, params, f + 1)
    /\ Is(Trade(1), "outcome", "WIN")

\* C2: when the first firing bar fires both target and stop the trade is a
\* SKIP with reason 'both hit' and pnl 0, and reports entry, target and stop.
C2_BothHitIsSkip ==
    (Done /\ WellFormed(params)) =>
        \A k \in Views :
            Fired(charts[k], params) =>
                LET v == charts[k]
                    f == FirstFiring(v, params)
                IN  (HT(v, params, f) /\ HS(v, params, f)) =>
                        /\ Is(Trade(k), "outcome", "SKIP")
                        /\ Is(Trade(k), "reason", "both hit")
                        /\ Is(Trade(k), "pnl", Zero)
                        /\ Is(Trade(k), "entry", Lv(v, params).entry)
                        /\ Is(Trade(k), "target", Lv(v, params).targetPrice)
                        /\ Is(Trade(k), "stop", Lv(v, params).stopPrice)

\* a bar fires both after a bar that fired nothing
C2_Witness ==
    /\ Done /\ WellFormed(params) /\ Len(charts) = 1
    /\ Fired(charts[1], params)
    /\ LET v == charts[1]
           f == FirstFiring(v, params)
       IN  /\ HT(v, params, f) /\ HS(v, params, f)
           /\ f > params.triggerBar.whole + 1
    /\ Is(Trade(1), "reason", "both hit")

\* C4: a trigger index at or past the end of the bars is a SKIP 'not enough
\* bars', and otherwise a trigger bar with high - low <= 0 is a SKIP 'zero
\* range'; both have pnl 0, nothing is raised, and the bars after the trigger
\* do not matter.
C4_DegenerateTriggerIsSkip ==
    (Done /\ WellFormed(params)) =>
        /\ ~IsRaised(result)
        /\ \A k \in Views :
              LET bars == charts[k].bars
                  t == params.triggerBar.whole
              IN  IF t - 1 >= Len(bars)
                  THEN /\ Is(Trade(k), "outcome", "SKIP")
                       /\ Is(Trade(k), "pnl", Zero)
                       /\ Is(Trade(k), "reason", "not enough bars")
                  ELSE (bars[t][3] - bars[t][4] <= 0) =>
                       /\ Is(Trade(k), "outcome", "SKIP")
                       /\ Is(Trade(k), "pnl", Zero)
                       /\ Is(Trade(k), "reason", "zero range")

\* a zero-range trigger bar followed by a bar that would have fired both
C4_Witness ==
    /\ Done /\ WellFormed(params) /\ Len(charts) = 1
    /\ LET bars == charts[1].bars
           t == params.triggerBar.whole
       IN  /\ t < Len(bars)
           /\ bars[t][3] = bars[t][4]
           /\ bars[t + 1][3] > bars[t][3]
           /\ bars[t + 1][4] < bars[t][4]
    /\ Is(Trade(1), "reason", "zero range")

\* C5: with a trigger bar of positive range and no firing bar after it (the
\* trigger bar may be the last bar) the trade is a SKIP 'end of day' with
\* pnl 0 that reports entry, target and stop.
C5_EndOfDay ==
    (Done /\ WellFormed(params)) =>
        \A k \in Views :
            (TriggerOk(charts[k], params) /\ FiringBars(charts[k], params) = {})
            =>  LET v == charts[k]
                IN  /\ Is(Trade(k), "outcome", "SKIP")
                    /\ Is(Trade(k), "reason", "end of day")
                    /\ Is(Trade(k), "pnl", Zero)
                    /\ Is(Trade(k), "entry", Lv(v, params).entry)
                    /\ Is(Trade(k), "target", Lv(v, params).targetPrice)
                    /\ Is(Trade(k), "stop", Lv(v, params).stopPrice)

\* two bars follow the trigger and neither fires
C5_Witness ==
    /\ Done /\ WellFormed(params) /\ Len(charts) = 1
    /\ TriggerOk(charts[1], params)
    /\ FiringBars(charts[1], params) = {}
    /\ Len(charts[1].bars) >= params.triggerBar.whole + 2
    /\ Is(Trade(1), "reason", "end of day")

\* C6: the price levels come from the trigger bar alone: entry = close,
\* range = high - low, targetOffset = targetPct/100 * range, stopOffset =
\* stopPct/100 * range, Long target = entry + targetOffset and stop = entry -
\* stopOffset, Short mirrored; a later bar fires the target iff its high >=
\* target (Long) or its low <= target (Short), and the stop iff its low <=
\* stop (Long) or its high >= stop (Short). The arithmetic is that of doubles.
C6Entry(v, p) == Dbl(v.bars[p.triggerBar.whole][5])
C6Range(v, p) == v.bars[p.triggerBar.whole][3] - v.bars[p.triggerBar.whole][4]
C6Offset(v, p, pct) == fMul(fDiv(Dbl(pct), 100), C6Range(v, p))
C6Target(v, p) ==
    IF p.direction = "Long"
    THEN fAdd(C6Entry(v, p), C6Offset(v, p, p.targetPct))
    ELSE fSub(C6Entry(v, p), C6Offset(v, p, p.targetPct))
C6Stop(v, p) ==
    IF p.direction = "Long"
    THEN fSub(C6Entry(v, p), C6Offset(v, p, p.stopPct))
    ELSE fAdd(C6Entry(v, p), C6Offset(v, p, p.stopPct))
C6FiresTarget(v, p, i) ==
    \/ p.direction = "Long" /\ fGe(Dbl(v.bars[i][3]), C6Target(v, p))
    \/ p.direction = "Short" /\ fLe(Dbl(v.bars[i][4]), C6Target(v, p))
C6FiresStop(v, p, i) ==
    \/ p.direction = "Long" /\ fLe(Dbl(v.bars[i][4]), C6Stop(v, p))
    \/ p.direction = "Short" /\ fGe(Dbl(v.bars[i][3]), C6Stop(v, p))
\* bar f is after the trigger and no bar between the trigger and f fires
C6First(v, p, f) ==
    /\ f \in (p.triggerBar.whole + 1)..Len(v.bars)
    /\ \A j \in (p.triggerBar.whole + 1)..(f - 1) :
          ~C6FiresTarget(v, p, j) /\ ~C6FiresStop(v, p, j)
C6_PriceLevelsAndHits ==
    (Done /\ WellFormed(params)) =>
        \A k \in Views :
            TriggerOk(charts[k], params) =>
                LET v == charts[k]
                    p == params
                    after == (p.triggerBar.whole + 1)..Len(v.bars)
                IN  /\ Is(Trade(k), "entry", C6Entry(v, p))
                    /\ Is(Trade(k), "target", C6Target(v, p))
                    /\ Is(Trade(k), "stop", C6Stop(v, p))
                    /\ Is(Trade(k), "outcome", "WIN") <=>
                          \E f \in after :
                              /\ C6First(v, p, f)
                              /\ C6FiresTarget(v, p, f)
                              /\ ~C6FiresStop(v, p, f)
                    /\ Is(Trade(k), "outcome", "LOSS") <=>
                          \E f \in after :
                              /\ C6First(v, p, f)
                              /\ C6FiresStop(v, p, f)
                              /\ ~C6FiresTarget(v, p, f)
                    /\ Is(Trade(k), "outcome", "WIN") =>
                          Is(Trade(k), "pnl", C6Offset(v, p, p.targetPct))
                    /\ Is(Trade(k), "outcome", "LOSS") =>
                          Is(Trade(k), "pnl",
                             fNeg(C6Offset(v, p, p.stopPct)))

\* a Short trade won at a target that is not a whole price
C6_Witness ==
    /\ Done /\ WellFormed(params) /\ Len(charts) = 1
    /\ TriggerOk(charts[1], params)
    /\ params.direction = "Short"
    /\ params.targetPct # params.stopPct
    /\ C6Target(charts[1], params).den # 1
    /\ Is(Trade(1), "outcome", "WIN")
    /\ Is(Trade(1), "target", C6Target(charts[1], params))

\* C7: wins, losses and skipped count the WIN, LOSS and SKIP trades and sum
\* to the number of views; decisive = wins + losses; winRate = wins /
\* decisive * 100 and avgPnL = (sum of the pnl of the WIN and LOSS trades) /
\* decisive when decisive > 0, both 0 otherwise; the result is never the
\* invalid marker, also for an empty list.
CountOf(o) == Cardinality({k \in Views : Is(Trade(k), "outcome", o)})
RECURSIVE DecisivePnL(_)
DecisivePnL(k) ==
    IF k = 0 THEN Zero
    ELSE IF Trade(k).outcome \in {"WIN", "LOSS"}
    THEN fAdd(DecisivePnL(k - 1), Trade(k).pnl)
    ELSE DecisivePnL(k - 1)
C7_Statistics ==
    (Done /\ WellFormed(params)) =>
        /\ ~IsNull(result) /\ ~IsRaised(result)
        /\ Len(result.trades) = Len(charts)
        /\ result.wins = CountOf("WIN")
        /\ result.losses = CountOf("LOSS")
        /\ result.skipped = CountOf("SKIP")
        /\ result.wins + result.losses + result.skipped = Len(charts)
        /\ result.decisive = result.wins + result.losses
        /\ IF result.decisive > 0
           THEN /\ result.winRate =
                       fMul(fDiv(Dbl(result.wins), result.decisive), 100)
                /\ result.avgPnL =
                       fDiv(DecisivePnL(Len(charts)), result.decisive)
           ELSE /\ result.winRate = Zero
                /\ result.avgPnL = Zero

\* two wins and a loss over three views whose profits and losses cancel but
\* for the roundings: winRate is the double next to 200/3, avgPnL the double
\* next to 2^-49 / 3
C7_Witness ==
    /\ Done /\ WellFormed(params) /\ Len(charts) = 3
    /\ ~IsNull(result) /\ ~IsRaised(result)
    /\ result.wins = 2 /\ result.losses = 1 /\ result.skipped = 0
    /\ result.winRate.num = 200 /\ result.winRate.den = 3
    /\ result.winRate.dev # 0
    /\ result.avgPnL.num = 0 /\ result.avgPnL.den = 3
    /\ result.avgPnL.dev > 0 /\ result.avgPnL.dev2 # 0

\* C3: simulate returns null when triggerBar is not an integer >= 1, or
\* direction is not Long or Short, or a percentage is not > 0, and otherwise
\* completes; it never raises.
C3_ValidatesBeforeRunning ==
    Done =>
        /\ ~IsRaised(result)
        /\ ~WellFormed(params) => IsNull(result)
        /\ WellFormed(params) => ~IsNull(result)

\* the result of simulateOne on a view, tagged with the view's key
Tagged(v, p) ==
    LET r == simulateOne(v, p)
    IN  [f \in DOMAIN r \cup {"key"} |-> IF f = "key" THEN v.key ELSE r[f]]

\* C20: for valid params simulate returns one trade per view, in the order of
\* the views, each tagged with its view's key and equal to the result of
\* simulateOne on that view; the trade of a view is the trade of a run on
\* that view alone.
C20_StatelessPerView ==
    (Done /\ WellFormed(params)) =>
        /\ ~IsNull(result) /\ ~IsRaised(result)
        /\ Len(result.trades) = Len(charts)
        /\ \A k \in Views :
              /\ result.trades[k].key = charts[k].key
              /\ result.trades[k] = Tagged(charts[k], params)
              /\ result.trades[k] = simulate(<<charts[k]>>, params).trades[1]

C20_Witness ==
    /\ Done /\ WellFormed(params)
    /\ Len(charts) >= 2
    /\ Is(Trade(1), "outcome", "WIN")
    /\ Is(Trade(2), "outcome", "LOSS")
    /\ Trade(1).key # Trade(2).key

(***************************************************************************)
(* Properties of the aggregation (SpecAgg)                                 *)
(***************************************************************************)
Returned == aggpc = "returned"
\* the bars of the returned array
Out == Deref(returned)
\* the aggregation factor of a frequency
Factor(freq) == CASE freq = "5min" -> 1 [] freq = "10min" -> 2
                  [] freq = "15min" -> 3

\* C8: for 10min (factor 2) and 15min (factor 3) the j-th returned bar is
\* made of the j-th chunk of factor consecutive input bars: timestamp and
\* open of the chunk's first bar, the maximum of its highs, the minimum of
\* its lows, the close of its last bar.
C8_ChunkRollup ==
    (Returned /\ targetFreq \in {"10min", "15min"}) =>
        LET k == Factor(targetFreq)
            N == Len(given)
        IN  \A j \in 1..Len(Out) :
                LET lo == (j - 1) * k + 1
                    hi == Min2(j * k, N)
                IN  /\ lo <= N
                    /\ Out[j][1] = given[lo][1]
                    /\ Out[j][2] = given[lo][2]
                    /\ \A i \in lo..hi : given[i][3] <= Out[j][3]
                    /\ \E i \in lo..hi : given[i][3] = Out[j][3]
                    /\ \A i \in lo..hi : given[i][4] >= Out[j][4]
                    /\ \E i \in lo..hi : given[i][4] = Out[j][4]
                    /\ Out[j][5] = given[hi][5]

\* a 15min bar whose high, low and close are not those of its first bar
C8_Witness ==
    /\ Returned /\ targetFreq = "15min"
    /\ Len(given) >= 5 /\ Len(Out) >= 2
    /\ Out[1][3] > given[1][3]
    /\ Out[1][4] < given[1][4]
    /\ Out[1][5] # given[1][5]
    /\ Out[1][5] # given[2][5]
    /\ Out[2][1] = given[4][1]

\* C9: N bars aggregated by factor k give ceil(N / k) bars: a final chunk of
\* 1..k-1 bars is kept, and no bars give no bars.
C9_ChunkCount ==
    Returned =>
        LET k == Factor(targetFreq)
            N == Len(given)
        IN  /\ Len(Out) = (N + k - 1) \div k
            /\ N = 0 => Out = <<>>

\* a final chunk of one bar of a 15min aggregation is kept
C9_Witness ==
    /\ Returned /\ targetFreq = "15min"
    /\ Len(given) = 4
    /\ Len(Out) = 2
    /\ Out[2] = given[4]

\* C10: aggregating at 5min gives the same bars in the same order, in
\* storage of its own: neither the returned array nor any of its bars is an
\* array of the input.
C10_IdentityWithoutSharing ==
    (Returned /\ targetFreq = "5min") =>
        /\ Out = given
        /\ returned # bars5min
        /\ \A i \in 1..Len(arrays[returned]), j \in 1..Len(arrays[bars5min]) :
              arrays[returned][i] # arrays[bars5min][j]

(***************************************************************************)
(* Properties of the data processor (SpecCat)                              *)
(***************************************************************************)
Called(op) == catpc = "returned" /\ call.op = op
Range(seq) == {seq[i] : i \in 1..Len(seq)}

\* the views a call has returned
ReturnedViews ==
    IF Called("getTradingDayData") THEN (IF IsNull(ret) THEN {} ELSE {ret})
    ELSE IF Called("getFilteredCharts") THEN Range(ret)
    ELSE {}

\* the classes as half-open intervals of the ratio in percent, the top one
\* unbounded
Buckets ==
    { [class |-> "<25%", from |-> 0, to |-> 25],
      [class |-> "25-50%", from |-> 25, to |-> 50],
      [class |-> "50-75%", from |-> 50, to |-> 75],
      [class |-> ">75%", from |-> 75] }

\* |close - open| / (high - low) * 100 lies in the interval of bucket b
InBucket(bar, b) ==
    LET range == bar[3] - bar[4]
        body == Abs(bar[5] - bar[2])
    IN  /\ b.from * range <= 100 * body
        /\ Has(b, "to") => 100 * body < b.to * range

BucketOf(bar) ==
    IF bar[3] - bar[4] <= 0 THEN "<25%"
    ELSE (CHOOSE b \in Buckets : InBucket(bar, b)).class

HasRatio(bar, pct) ==
    bar[3] - bar[4] > 0 /\ 100 * Abs(bar[5] - bar[2]) = pct * (bar[3] - bar[4])

\* C11: every bar of a returned view is classified '<25%' when high - low <= 0
\* and otherwise by the interval its body ratio lies in: [0,25) '<25%',
\* [25,50) '25-50%', [50,75) '50-75%', 75 and above '>75%'.
C11_BodyRatioBuckets ==
    \A v \in ReturnedViews :
        /\ Len(v.bodyRatios) = Len(v.bars)
        /\ \A i \in 1..Len(v.bars) : v.bodyRatios[i] = BucketOf(v.bars[i])

C11_Witness ==
    /\ Called("getTradingDayData")
    /\ ~IsNull(ret)
    /\ \E i, j, k \in 1..Len(ret.bars) :
          /\ HasRatio(ret.bars[i], 25) /\ ret.bodyRatios[i] = "25-50%"
          /\ HasRatio(ret.bars[j], 75) /\ ret.bodyRatios[j] = ">75%"
          /\ ret.bars[k][3] = ret.bars[k][4] /\ ret.bodyRatios[k] = "<25%"

\* the filter of the call with its defaults, and what another filter gives
\* on the same catalog
Filt == destructure(call.filters)
With(f, d, v) == [f EXCEPT ![d] = v]
Generate(f) == getFilteredCharts(processedCharts, f)

\* every value a membership dimension can take in the files
AllValues ==
    [sources |-> <<"B", "A">>,
     gapDirections |-> <<"GAP UP", "GAP DOWN">>,
     gapSizeClasses |-> <<"SMALL", "LARGE">>]

\* emptying dimension d excludes nothing a selection in d lets through
NothingExcluded(d) ==
    Filt[d] = <<>> =>
        \A v \in FilterOptions[d] :
            Range(Generate(With(Filt, d, v))) \subseteq Range(ret)

\* an empty membership dimension gives what selecting all its values gives
SameAsAll(d) ==
    Filt[d] = <<>> => ret = Generate(With(Filt, d, AllValues[d]))

Unconstrained(d) ==
    IF d \in DOMAIN AllValues THEN SameAsAll(d) ELSE NothingExcluded(d)

\* every view comes from an entry that is a member of each non-empty set, at
\* a requested frequency and bar-count option
MembershipRequired ==
    \A v \in Range(ret) :
        /\ includes(Filt.frequencies, v.frequency)
        /\ includes(Filt.barsOptions, v.maxBars)
        /\ \E i \in 1..Len(processedCharts) :
              LET e == processedCharts[i]
              IN  /\ e.source = v.source /\ e.date = v.date
                  /\ Filt.sources # <<>> => includes(Filt.sources, e.source)
                  /\ Filt.gapDirections # <<>> =>
                        includes(Filt.gapDirections, e.gapDirection)
                  /\ Filt.gapSizeClasses # <<>> =>
                        includes(Filt.gapSizeClasses, e.gapSizeClass)

\* C12 as stated: an empty set in any of the six dimensions (sources,
\* frequencies, bar-count options, gap directions, gap size classes, prior-day
\* flags) imposes no constraint; a non-empty set requires membership.
C12_AnyEmptyDimensionUnconstrained ==
    Called("getFilteredCharts") =>
        /\ \A d \in Dimensions \ {"barFilters"} : Unconstrained(d)
        /\ MembershipRequired

\* C12 amended: an empty sources, gap-direction, gap-size-class or prior-day
\* set imposes no constraint; an empty frequencies or bar-count options set
\* yields no view at all; a non-empty set requires membership.
C12_EmptyEntryDimensionUnconstrained ==
    Called("getFilteredCharts") =>
        /\ \A d \in {"sources", "gapDirections", "gapSizeClasses",
                     "prevDayFilters"} : Unconstrained(d)
        /\ (Filt.frequencies = <<>> \/ Filt.barsOptions = <<>>) => ret = <<>>
        /\ MembershipRequired

C12_Witness ==
    /\ Called("getFilteredCharts")
    /\ Filt.sources = <<>> /\ Filt.gapDirections = <<>>
    /\ \E v, w \in Range(ret) :
          v.source # w.source /\ v.gapDirection # w.gapDirection

\* the entry's boolean a prior-day flag asks for
FlagOf(e, flag) ==
    IF flag = "open_above_prev_high" THEN e.openAbovePrevHigh
    ELSE e.closeBelowPrevLow

\* the entry-level conditions on an entry
Keeps(e) ==
    /\ Filt.sources = <<>> \/ includes(Filt.sources, e.source)
    /\ Filt.gapDirections = <<>> \/ includes(Filt.gapDirections, e.gapDirection)
    /\ Filt.gapSizeClasses = <<>>
       \/ includes(Filt.gapSizeClasses, e.gapSizeClass)
    /\ \A flag \in Range(Filt.prevDayFilters) : FlagOf(e, flag) = TRUE

IsPrefix(p, seq) == Len(p) <= Len(seq) /\ p = SubSeq(seq, 1, Len(p))

\* v is a view of entry e: its identity, labels and bars are those of e
ViewOfEntry(v, e) ==
    /\ v.source = e.source /\ v.date = e.date
    /\ v.gapDirection = e.gapDirection /\ v.gapSizeClass = e.gapSizeClass
    /\ v.openAbovePrevHigh = e.openAbovePrevHigh
    /\ v.closeBelowPrevLow = e.closeBelowPrevLow
    /\ IsPrefix(v.bars, aggregateBars(e.bars, v.frequency))

\* the bars the view of e at a frequency and bar-count option has
BarsOfView(e, freq, barsOpt) ==
    LET agg == aggregateBars(e.bars, freq)
    IN  IF barsOpt = FullDay THEN agg
        ELSE SubSeq(agg, 1, Min2(barsOpt, Len(agg)))

NoDuplicateDays ==
    \A i, j \in 1..Len(processedCharts) :
        (processedCharts[i].source = processedCharts[j].source
         /\ processedCharts[i].date = processedCharts[j].date) => i = j

\* C13: the entry-level pass keeps an entry iff it meets the source, gap
\* direction and gap size conditions and every requested prior-day flag is
\* true of it: every view in the output is a view of a kept entry, and
\* without per-bar constraints every kept entry has each of its views of at
\* least 5 bars in the output.
C13_EntryLevelPass ==
    Called("getFilteredCharts") =>
        /\ \A v \in Range(ret) :
              \E i \in 1..Len(processedCharts) :
                  Keeps(processedCharts[i]) /\ ViewOfEntry(v, processedCharts[i])
        /\ Filt.barFilters = <<>> =>
              \A i \in 1..Len(processedCharts) :
                  \A freq \in Range(Filt.frequencies),
                     barsOpt \in Range(Filt.barsOptions) :
                      LET e == processedCharts[i]
                      IN  (Keeps(e) /\ Len(BarsOfView(e, freq, barsOpt)) >= MinBars)
                          => \E v \in Range(ret) :
                                 /\ v.key = keyOf(e, freq, barsOpt)
                                 /\ ViewOfEntry(v, e)

\* a per-bar constraint holds of a view
Holds(v, c) ==
    /\ c.bar >= 1 /\ c.bar <= Len(v.bars)
    /\ c.bar \in DOMAIN v.barDirections
    /\ v.barDirections[c.bar] = c.direction
    /\ (Has(c, "bodyRatio") /\ c.bodyRatio # "any") =>
          (c.bar \in DOMAIN v.bodyRatios /\ v.bodyRatios[c.bar] = c.bodyRatio)

HoldsAll(v) == \A c \in Range(Filt.barFilters) : Holds(v, c)

\* what the same filter without its per-bar constraints gives
Unfiltered == Generate(With(Filt, "barFilters", <<>>))

\* C14: the views that survive the per-bar pass are, in order, the views of
\* which every requested constraint holds; a bar number below 1 or above the
\* number of bars excludes the view whatever the other constraints are, and
\* the call returns a list.
C14_PerBarFiltersFailClosed ==
    Called("getFilteredCharts") =>
        /\ ret = SelectSeq(Unfiltered, HoldsAll)
        /\ \A v \in Range(ret), c \in Range(Filt.barFilters) :
              c.bar \in 1..Len(v.bars)

C14_Witness ==
    /\ Called("getFilteredCharts")
    /\ \E v, w \in Range(Unfiltered), c \in Range(Filt.barFilters) :
          /\ c.bar > Len(v.bars)
          /\ v \notin Range(ret)
          /\ w \in Range(ret)

\* the view the processor looks up for an entry, a frequency and an option
Lookup(e, freq, barsOpt) ==
    getTradingDayData(processedCharts, e.source, e.date, freq, barsOpt)

\* C15: every view in the output has at least 5 bars; a (frequency,
\* bar-count option) pair whose view has fewer is left out, and without
\* per-bar constraints every other pair of a kept entry is still in the
\* output.
C15_AtLeastFiveBars ==
    Called("getFilteredCharts") =>
        /\ \A v \in Range(ret) : Len(v.bars) >= 5
        /\ Filt.barFilters = <<>> =>
              \A i \in 1..Len(processedCharts) :
                  \A freq \in Range(Filt.frequencies),
                     barsOpt \in Range(Filt.barsOptions) :
                      LET e == processedCharts[i]
                      IN  Keeps(e) =>
                            ((\E v \in Range(ret) :
                                  v.key = keyOf(e, freq, barsOpt))
                             <=> Len(Lookup(e, freq, barsOpt).bars) >= 5)

C15_Witness ==
    /\ Called("getFilteredCharts")
    /\ Len(Filt.frequencies) = 2
    /\ \E i \in 1..Len(processedCharts) :
          LET e == processedCharts[i]
          IN  /\ Len(Lookup(e, Filt.frequencies[1], FullDay).bars) \in 1..4
              /\ Len(ret) = 1
              /\ ret[1].key = keyOf(e, Filt.frequencies[2], FullDay)

\* a is b with some elements left out
RECURSIVE IsSubsequence(_, _)
IsSubsequence(a, b) ==
    IF a = <<>> THEN TRUE
    ELSE IF b = <<>> THEN FALSE
    ELSE IF Head(a) = Head(b) THEN IsSubsequence(Tail(a), Tail(b))
    ELSE IsSubsequence(a, Tail(b))

KeyString(source, date, freq, barsOpt) ==
    source \o "-" \o date \o "-" \o freq \o "-" \o ToString(barsOpt)

\* the keys of all (entry, frequency, bar-count option) triples: entries in
\* catalog order, then the requested frequencies in order, then the requested
\* options in order
Enumeration ==
    LET nf == Len(Filt.frequencies)
        nb == Len(Filt.barsOptions)
    IN  [n \in 1..(Len(processedCharts) * nf * nb) |->
            LET e == processedCharts[((n - 1) \div (nf * nb)) + 1]
                freq == Filt.frequencies[(((n - 1) \div nb) % nf) + 1]
                barsOpt == Filt.barsOptions[((n - 1) % nb) + 1]
            IN  KeyString(e.source, e.date, freq, barsOpt)]

Keys(views) == [n \in 1..Len(views) |-> views[n].key]

\* the number of days of the sources before source s of the file
RECURSIVE DaysBefore(_, _)
DaysBefore(sources, s) ==
    IF s <= 1 THEN 0
    ELSE DaysBefore(sources, s - 1) + Len(sources[s - 1].tradingDays)

\* the catalog is the days of the file, source by source, in the order given
SourceMajor ==
    (~IsNull(rawData) /\ Has(rawData, "sources")) =>
        LET sources == rawData.sources
        IN  /\ Len(processedCharts) = DaysBefore(sources, Len(sources) + 1)
            /\ \A s \in 1..Len(sources) :
                  \A d \in 1..Len(sources[s].tradingDays) :
                      LET e == processedCharts[DaysBefore(sources, s) + d]
                          day == sources[s].tradingDays[d]
                      IN  /\ e.source = sources[s].name
                          /\ e.date = day.date
                          /\ e.bars = day.bars

\* C16: the catalog is the file's days source by source in the order given;
\* the keys of the output are a subsequence of the keys of the entry x
\* frequency x bar-count option enumeration, and the key of each view is
\* `source-date-frequency-barsOption` of the view.
C16_CatalogIterationOrder ==
    /\ loading.running # "parsed" => SourceMajor
    /\ Called("getFilteredCharts") =>
          /\ IsSubsequence(Keys(ret), Enumeration)
          /\ \A v \in Range(ret) :
                v.key = KeyString(v.source, v.date, v.frequency, v.maxBars)

C16_Witness ==
    /\ Called("getFilteredCharts")
    /\ Len(ret) >= 3
    /\ Len(ret) < Len(Enumeration)
    /\ Len(Filt.frequencies) = 2
    /\ \E v, w \in Range(ret) : v.source # w.source
    /\ \E v, w \in Range(ret) : v.frequency # w.frequency
    /\ \E v, w \in Range(ret) : v.source = w.source /\ v.maxBars # w.maxBars

Classify(bar) ==
    IF bar[5] > bar[2] THEN "UP" ELSE IF bar[5] < bar[2] THEN "DOWN" ELSE "FLAT"

\* the entries with the source and date of the call
Matching ==
    {i \in 1..Len(processedCharts) :
        /\ processedCharts[i].source = call.sourceName
        /\ processedCharts[i].date = call.date}

\* C17: getTradingDayData returns null when no entry has the source and date;
\* otherwise its bars are the first min(maxBars, L) of the L aggregated bars
\* of an entry with that source and date, all L with maxBars 999, and its
\* directions and body ratios classify those bars one by one.
C17_ViewOfEntry ==
    Called("getTradingDayData") =>
        IF Matching = {} THEN ret = NULL
        ELSE /\ ret # NULL
             /\ \E i \in Matching :
                   LET agg == aggregateBars(processedCharts[i].bars,
                                            call.frequency)
                       n == IF call.maxBars = 999 THEN Len(agg)
                            ELSE Min2(call.maxBars, Len(agg))
                   IN  ret.bars = SubSeq(agg, 1, n)
             /\ Len(ret.barDirections) = Len(ret.bars)
             /\ Len(ret.bodyRatios) = Len(ret.bars)
             /\ \A k \in 1..Len(ret.bars) :
                   /\ ret.barDirections[k] = Classify(ret.bars[k])
                   /\ ret.bodyRatios[k] = BucketOf(ret.bars[k])

C17_Witness ==
    /\ Called("getTradingDayData")
    /\ ret # NULL
    /\ call.frequency = "10min"
    /\ \E i \in Matching :
          /\ Len(ret.bars) = call.maxBars
          /\ Len(ret.bars) < Len(aggregateBars(processedCharts[i].bars, "10min"))
          /\ \E k \in 1..Len(ret.bars) :
                ret.barDirections[k] # Classify(processedCharts[i].bars[k])

\* the largest number of base bars of an entry of the catalog, 0 without one
MaxBaseBars ==
    MaxOf({Len(processedCharts[i].bars) : i \in 1..Len(processedCharts)}
          \cup {0})

\* C18: a view asked for with a bar count of at least the largest number of
\* bars in the catalog has the bars, directions and body ratios of the view
\* asked for with the full-day option 999.
C18_LargeLimitIsFullDay ==
    (Called("getTradingDayData") /\ ret # NULL /\ call.maxBars >= MaxBaseBars)
        => LET full == getTradingDayData(processedCharts, call.sourceName,
                                         call.date, call.frequency, 999)
           IN  /\ ret.bars = full.bars
               /\ ret.barDirections = full.barDirections
               /\ ret.bodyRatios = full.bodyRatios

C18_Witness ==
    /\ Called("getTradingDayData")
    /\ ret # NULL
    /\ call.maxBars < 999
    /\ call.maxBars = MaxBaseBars
    /\ Len(ret.bars) = call.maxBars

\* C19: getMaxBarCount returns the largest number of base bars of an entry
\* of the catalog, 0 for an empty catalog, capped at 120.
C19_MaxBaseBarCount ==
    Called("getMaxBarCount") => ret = Min2(MaxBaseBars, 120)

\* the view of entry e computed from the bars and labels of e itself
OwnView(e, freq, barsOpt) ==
    LET bars == BarsOfView(e, freq, barsOpt)
    IN  [source |-> e.source,
         date |-> e.date,
         frequency |-> freq,
         maxBars |-> barsOpt,
         gapDirection |-> e.gapDirection,
         gapSizeClass |-> e.gapSizeClass,
         openAbovePrevHigh |-> e.openAbovePrevHigh,
         closeBelowPrevLow |-> e.closeBelowPrevLow,
         bars |-> bars,
         barDirections |-> [k \in 1..Len(bars) |-> Classify(bars[k])],
         bodyRatios |-> [k \in 1..Len(bars) |-> BucketOf(bars[k])],
         key |-> KeyString(e.source, e.date, freq, barsOpt)]

\* the own views of all entries, in the order of the enumeration
OwnViews ==
    LET nf == Len(Filt.frequencies)
        nb == Len(Filt.barsOptions)
    IN  [n \in 1..(Len(processedCharts) * nf * nb) |->
            OwnView(processedCharts[((n - 1) \div (nf * nb)) + 1],
                    Filt.frequencies[(((n - 1) \div nb) % nf) + 1],
                    Filt.barsOptions[((n - 1) % nb) + 1])]

\* an own view is emitted: its entry is kept, it has 5 bars, every per-bar
\* constraint holds of it
Emitted(v) == Keeps(v) /\ Len(v.bars) >= 5 /\ HoldsAll(v)

\* C22: every view emitted while iterating an entry is computed from the bars
\* and labels of that entry, also when two entries have the same source and
\* date: the output is the emitted own views of the entries, in order.
C22_ViewFromItsOwnEntry ==
    Called("getFilteredCharts") => ret = SelectSeq(OwnViews, Emitted)

(***************************************************************************)
(* Properties of calls that follow one another (SpecUse)                   *)
(***************************************************************************)
\* C21: once loaded, no getTradingDayData, getFilteredCharts or simulate call
\* changes an entry of the catalog, the order of the entries or a field of a
\* base bar, and a getFilteredCharts call returns the views the last call
\* with the same filter returned.
C21_CatalogImmutable ==
    /\ [][(/\ catpc = "loaded"
            /\ ncalls' = ncalls + 1
            /\ call'.op \in {"getTradingDayData", "getFilteredCharts",
                              "simulate"})
           => /\ processedCharts' = processedCharts
              /\ CatalogValue' = CatalogValue]_vars
    /\ [][(/\ catpc = "loaded"
            /\ ncalls' = ncalls + 1
            /\ call'.op = "getFilteredCharts"
            /\ previous # NULL
            /\ previous.filters = call'.filters)
           => previous'.views = previous.views]_vars

C21_Witness ==
    /\ catpc = "loaded"
    /\ ncalls = MaxCalls
    /\ call.op = "getFilteredCharts"
    /\ previous # NULL
    /\ previous.filters = call.filters
    /\ previous.again
    /\ Len(ret) >= 2
    /\ \E v \in Range(ret) : v.maxBars = 5 /\ Len(Deref(v.bars)) = 5

(***************************************************************************)
(* Properties of the page (SpecPage)                                       *)
(***************************************************************************)
\* C23: after applyFilters has rendered, the chart at index i of
\* Exporter.currentCharts is the chart shown in container chart-i, and an
\* export pairs the metadata of each chart with the image of that chart.
C23_ExportPairsChartWithItsImage ==
    /\ Rendered =>
          /\ Len(currentCharts) = Len(containers)
          /\ \A i \in 1..Len(currentCharts) :
                containers[i] = [chart |-> currentCharts[i].bars]
    /\ (/\ call.op \in {"exportToMarkdown", "exportToPowerPoint"}
        /\ call.after
        /\ call.started
        /\ exports = <<>>)
       => \A i \in 1..Len(exported.pairs) :
             exported.pairs[i].image = [png |-> exported.pairs[i].chart.bars]

\* the displayed charts are in ascending order of date
Ascending ==
    \A i, j \in 1..Len(toDisplay) :
        i < j => parseInt(toDisplay[i].date) <= parseInt(toDisplay[j].date)

====
